---------------------------- MODULE Spec2Model ----------------------------
(***************************************************************************)
(* Model of the adjoint (VJP) medium gradients of                          *)
(* tidy3d/plugins/adjoint/components/medium.py and of the legacy format    *)
(* conversion of tidy3d_core/convert.py.                                   *)
(*                                                                         *)
(* Real numbers are exact rationals [n, d] in lowest terms with d > 0;     *)
(* the value with d = 0 is NaN (what an out-of-range interpolation         *)
(* yields).  Floating-point rounding is not modelled.                      *)
(***************************************************************************)
EXTENDS Integers, Sequences, FiniteSets, TLC

VARIABLES
    self,           \* the medium object store_vjp / to_medium is called on
    grad_data_fwd,  \* forward FieldData (monitor bounds + field components)
    grad_data_adj,  \* adjoint FieldData
    sim_bounds,     \* simulation bounds (rmin, rmax)
    wvl_mat,        \* wavelength in the material
    ret,            \* what the last call returned (or raised)
    calls,          \* log of finished store_vjp calls: inputs and result
    sim,            \* the Simulation export_old_json is called on
    f_handle        \* the h5py.File of load_old_monitor_data: none, open or closed

vars ==
    <<self, grad_data_fwd, grad_data_adj, sim_bounds, wvl_mat, ret, calls, sim, f_handle>>

-----------------------------------------------------------------------------
(* Bounds of the model *)

\* largest integer coordinate of a monitor / simulation edge
MaxCoord == 2

-----------------------------------------------------------------------------
(* Exact rational arithmetic standing for python / numpy floats *)

Abs(x) == IF x < 0 THEN -x ELSE x

\* the elements of an array as they lie in memory: computed once, when the
\* array is made, and addressed by position
Buffer(values) == values \o << >>

RECURSIVE GCD(_, _)
GCD(a, b) == IF b = 0 THEN a ELSE GCD(b, a % b)

NaN == [n |-> 0, d |-> 0]

IsNaN(a) == a.d = 0

\* the rational n/d in lowest terms (d # 0)
Rat(n, d) ==
    LET g == GCD(Abs(n), Abs(d))
        s == IF d < 0 THEN -1 ELSE 1
    IN  [n |-> (s * n) \div g, d |-> (s * d) \div g]

RInt(k) == [n |-> k, d |-> 1]

RZero == RInt(0)

ROne == RInt(1)

RAdd(a, b) == IF IsNaN(a) \/ IsNaN(b) THEN NaN ELSE Rat(a.n * b.d + b.n * a.d, a.d * b.d)

RSub(a, b) == IF IsNaN(a) \/ IsNaN(b) THEN NaN ELSE Rat(a.n * b.d - b.n * a.d, a.d * b.d)

RMul(a, b) == IF IsNaN(a) \/ IsNaN(b) THEN NaN ELSE Rat(a.n * b.n, a.d * b.d)

\* a / b for b # 0
RDiv(a, b) == IF IsNaN(a) \/ IsNaN(b) THEN NaN ELSE Rat(a.n * b.d, a.d * b.n)

RLess(a, b) == a.n * b.d < b.n * a.d

RLeq(a, b) == a.n * b.d <= b.n * a.d

RMax(a, b) == IF RLess(a, b) THEN b ELSE a

RMin(a, b) == IF RLess(b, a) THEN b ELSE a

\* python int(): truncation toward zero
PyInt(a) == IF a.n >= 0 THEN a.n \div a.d ELSE -((-a.n) \div a.d)

\* mathematical floor
RFloor(a) == a.n \div a.d

-----------------------------------------------------------------------------
(* Geometry.bounds_intersection and numpy.linspace *)

\* number of integration points per unit wavelength in material
PTS_PER_WVL_INTEGRATION == 20

\* the three axis names, in the order of zip("xyz", rmin, rmax)
Axes == <<"x", "y", "z">>

\* component-wise max of the mins and min of the maxes
bounds_intersection(bounds1, bounds2) ==
    [rmin |-> [i \in 1..3 |-> RMax(bounds1.rmin[i], bounds2.rmin[i])],
     rmax |-> [i \in 1..3 |-> RMin(bounds1.rmax[i], bounds2.rmax[i])]]

\* a linspace that leaves out the end point: num samples spaced by
\* (stop - start) / num
linspace_no_endpoint(start, stop, num) ==
    Buffer([i \in 1..num |-> RAdd(start, RMul(RInt(i - 1), RDiv(RSub(stop, start), RInt(num))))])

\* numpy.linspace(start, stop, num) for num >= 1
linspace(start, stop, num) ==
    IF num = 1 THEN <<start>>
    ELSE LET step == RDiv(RSub(stop, start), RInt(num - 1))
         IN  Buffer([i \in 1..num |-> RAdd(start, RMul(RInt(i - 1), step))])


-----------------------------------------------------------------------------
(* JaxMedium._get_volume_disc *)

\* the empty dict
EmptyDict == [k \in {} |-> 0]

\* dict[key] = value
DictPut(dict, key, value) ==
    [k \in DOMAIN dict \cup {key} |-> IF k = key THEN value ELSE dict[k]]

\* mutant of num_cells_dim_of: the quotient rounded up instead of int() + 1
num_cells_dim_ceil(size, wvl) ==
    LET q == RDiv(RMul(size, RInt(PTS_PER_WVL_INTEGRATION)), wvl)
    IN  IF q.d = 1 THEN q.n ELSE RFloor(q) + 1

\* int(size * PTS_PER_WVL_INTEGRATION / wvl_mat) + 1
num_cells_dim_of(size, wvl) ==
    PyInt(RDiv(RMul(size, RInt(PTS_PER_WVL_INTEGRATION)), wvl)) + 1

\* mutant of volume_disc_axis: the `if size == 0: continue` is missing
volume_disc_axis_no_continue(acc, i, rmin, rmax, wvl) ==
    IF acc.raised # "none" THEN acc
    ELSE
    LET size == RSub(rmax[i], rmin[i])
        num_cells_dim == num_cells_dim_of(size, wvl)
    IN  IF num_cells_dim = 0 THEN [acc EXCEPT !.raised = "ZeroDivisionError"]
        ELSE IF num_cells_dim < 0 THEN [acc EXCEPT !.raised = "ValueError"]
        ELSE
        LET d_len == RDiv(size, RInt(num_cells_dim))
        IN  [acc EXCEPT !.d_vol = RMul(@, d_len),
                        !.vol_coords =
                            DictPut(@, Axes[i],
                                    linspace(RAdd(rmin[i], RDiv(d_len, RInt(2))),
                                             RSub(rmax[i], RDiv(d_len, RInt(2))),
                                             num_cells_dim))]

\* one pass of the loop over zip("xyz", rmin, rmax); acc is (raised, vol_coords,
\* d_vol) so far.  size / 0 raises ZeroDivisionError, numpy.linspace with a
\* negative number of samples raises ValueError.
volume_disc_axis(acc, i, rmin, rmax, wvl) ==
    IF acc.raised # "none" THEN acc
    ELSE
    LET min_edge == rmin[i]
        max_edge == rmax[i]
        size == RSub(max_edge, min_edge)
    IN  IF size = RZero THEN acc
        ELSE
        LET num_cells_dim == num_cells_dim_of(size, wvl)
        IN  IF num_cells_dim = 0 THEN [acc EXCEPT !.raised = "ZeroDivisionError"]
            ELSE
            LET d_len == RDiv(size, RInt(num_cells_dim))
                d_vol == RMul(acc.d_vol, d_len)
            IN  IF num_cells_dim < 0 THEN [acc EXCEPT !.raised = "ValueError"]
                ELSE
                LET coords_interp ==
                        linspace(RAdd(min_edge, RDiv(d_len, RInt(2))),
                                 RSub(max_edge, RDiv(d_len, RInt(2))),
                                 num_cells_dim)
                IN  [acc EXCEPT !.d_vol = d_vol,
                                !.vol_coords = DictPut(@, Axes[i], coords_interp)]

\* (vol_coords, d_vol) of the intersection of the monitor and the simulation
get_volume_disc(grad_data, bounds, wvl) ==
    LET mnt_bounds == grad_data.bounds
        r == bounds_intersection(mnt_bounds, bounds)
        acc0 == [raised |-> "none", vol_coords |-> EmptyDict, d_vol |-> ROne]
        acc1 == volume_disc_axis(acc0, 1, r.rmin, r.rmax, wvl)
        acc2 == volume_disc_axis(acc1, 2, r.rmin, r.rmax, wvl)
    IN  volume_disc_axis(acc2, 3, r.rmin, r.rmax, wvl)

-----------------------------------------------------------------------------
(* xarray DataArray: named dimensions, one coordinate vector per dimension,  *)
(* and the values as numpy holds them: one flat buffer in row-major (C)     *)
(* order, whose shape is the lengths of the coordinate vectors.  Field      *)
(* values are complex numbers [re, im] of rationals.                       *)

Cplx(re, im) == [re |-> re, im |-> im]

\* (a * b) of two complex numbers
CMul(a, b) ==
    Cplx(RSub(RMul(a.re, b.re), RMul(a.im, b.im)),
         RAdd(RMul(a.re, b.im), RMul(a.im, b.re)))

\* a + (b - a) * w, the linear interpolation between two complex samples
CLerp(a, b, w) ==
    Cplx(RAdd(a.re, RMul(RSub(b.re, a.re), w)),
         RAdd(a.im, RMul(RSub(b.im, a.im), w)))

CNaN == Cplx(NaN, NaN)

\* a + (b - a) * w, the linear interpolation between two real samples
RLerp(a, b, w) == RAdd(a, RMul(RSub(b, a), w))

\* whether a sample is complex
IsComplex(a) == "re" \in DOMAIN a

\* linear interpolation between two samples of one kind
Lerp(a, b, w) == IF IsComplex(a) THEN CLerp(a, b, w) ELSE RLerp(a, b, w)

\* the NaN of the kind of the sample a
NaNLike(a) == IF IsComplex(a) THEN CNaN ELSE NaN

\* lengths of the dimensions of a DataArray, in the order of its dims
ShapeOf(arr) == [p \in 1..Len(arr.dims) |-> Len(arr.coords[arr.dims[p]])]

\* number of elements of the dimensions after the p-th: the row-major stride of
\* dimension p (the size of the whole array for p = 0)
RECURSIVE StrideOf(_, _)
StrideOf(shape, p) ==
    IF p >= Len(shape) THEN 1 ELSE shape[p + 1] * StrideOf(shape, p + 1)

SizeOf(shape) == StrideOf(shape, 0)

\* the index (1-based) along dimension p of the t-th element of the buffer
IndexAt(t, shape, p) == (((t - 1) \div StrideOf(shape, p)) % shape[p]) + 1

\* the indices of the t-th element of the buffer, one per dimension
Unravel(t, shape) == [p \in 1..Len(shape) |-> IndexAt(t, shape, p)]

\* position of dimension dim among the dims of arr (0 when it is none of them)
DimPos(arr, dim) ==
    IF \E p \in 1..Len(arr.dims) : arr.dims[p] = dim
    THEN CHOOSE p \in 1..Len(arr.dims) : arr.dims[p] = dim
    ELSE 0

\* the sequence seq without its p-th entry
DropAt(seq, p) == [q \in 1..(Len(seq) - 1) |-> IF q < p THEN seq[q] ELSE seq[q + 1]]

\* the dict without key
DictDrop(dict, key) == [k \in DOMAIN dict \ {key} |-> dict[k]]

\* e_fwd * e_adj: the elementwise product of two co-registered arrays
XMul(a, b) ==
    IF a.raised # "none" THEN a
    ELSE [a EXCEPT !.values =
             Buffer([t \in 1..Len(a.values) |-> CMul(a.values[t], b.values[t])])]

\* arr.real: an array of real values
XReal(arr) ==
    IF arr.raised # "none" THEN arr
    ELSE [arr EXCEPT !.values = Buffer([t \in 1..Len(arr.values) |-> arr.values[t].re])]

\* arr.isel(dim=index): the dimension is dropped; index counts from 0.
\* An index beyond the dimension raises IndexError.
XIsel(arr, dim, index) ==
    IF arr.raised # "none" THEN arr
    ELSE
    LET p == DimPos(arr, dim)
        shape == ShapeOf(arr)
        inner == StrideOf(shape, p)
        dims == DropAt(arr.dims, p)
        coords == DictDrop(arr.coords, dim)
        size == SizeOf(DropAt(shape, p))
    IN  IF index + 1 > shape[p] THEN [arr EXCEPT !.raised = "IndexError"]
        ELSE [raised |-> "none", dims |-> dims, coords |-> coords,
              values |-> Buffer([t \in 1..size |->
                                    arr.values[((t - 1) \div inner) * shape[p] * inner
                                               + index * inner + ((t - 1) % inner) + 1]])]

\* where the target t falls among the ascending coordinates xs (at least two):
\* the left neighbour k and the weight of the right neighbour, or k = 0 when t
\* is outside [xs[1], xs[-1]]
Locate(xs, t) ==
    IF RLess(t, xs[1]) \/ RLess(xs[Len(xs)], t) THEN [k |-> 0, w |-> RZero]
    ELSE
    LET k == CHOOSE j \in 1..(Len(xs) - 1) :
                 /\ RLeq(xs[j], t)
                 /\ RLeq(t, xs[j + 1])
                 /\ \A i \in 1..(j - 1) : ~ RLeq(t, xs[i + 1])
    IN  [k |-> k, w |-> RDiv(RSub(t, xs[k]), RSub(xs[k + 1], xs[k]))]

\* arr.interp(dim=new_coords): linear interpolation along one dimension, NaN
\* outside the range of the data.  Interpolating along a dimension that holds
\* a single coordinate raises ValueError.
XInterp1(arr, dim, new_coords) ==
    IF arr.raised # "none" THEN arr
    ELSE
    LET p == DimPos(arr, dim)
        xs == arr.coords[dim]
        m == Len(xs)
        n == Len(new_coords)
        inner == StrideOf(ShapeOf(arr), p)
        loc == Buffer([j \in 1..n |-> Locate(xs, new_coords[j])])
        size == (Len(arr.values) \div m) * n
    IN  IF m < 2 THEN [arr EXCEPT !.raised = "ValueError"]
        ELSE [arr EXCEPT
                !.coords = [arr.coords EXCEPT ![dim] = new_coords],
                !.values =
                    Buffer([t \in 1..size |->
                        LET l == loc[(((t - 1) \div inner) % n) + 1]
                            base == ((t - 1) \div (n * inner)) * m * inner
                                    + ((t - 1) % inner) + 1
                        IN  IF l.k = 0 THEN NaNLike(arr.values[base])
                            ELSE Lerp(arr.values[base + (l.k - 1) * inner],
                                      arr.values[base + l.k * inner],
                                      l.w)])]

\* interpolation along dim when coords names it
XInterpDim(arr, coords, dim) ==
    IF dim \in DOMAIN coords THEN XInterp1(arr, dim, coords[dim]) ELSE arr

\* arr.interp(**coords): along x, then y, then z, each when coords names it
XInterp(arr, coords) ==
    XInterpDim(XInterpDim(XInterpDim(arr, coords, "x"), coords, "y"), coords, "z")

\* values[lo] + ... + values[hi] (halving the range keeps the evaluation shallow)
RECURSIVE SumFrom(_, _, _)
SumFrom(values, lo, hi) ==
    IF lo > hi THEN RZero
    ELSE IF lo = hi THEN values[lo]
    ELSE LET mid == (lo + hi) \div 2
         IN  RAdd(SumFrom(values, lo, mid), SumFrom(values, mid + 1, hi))

\* jnp.sum(arr.values) of a real array
XSum(arr) == SumFrom(arr.values, 1, Len(arr.values))

-----------------------------------------------------------------------------
(* JaxMedium.field_contribution and JaxMedium.store_vjp *)

\* d_vol times one sample instead of the sum of the samples
scaled_sample(d_vol, integrand) ==
    IF integrand.raised # "none" THEN [raised |-> integrand.raised, val |-> NaN]
    ELSE [raised |-> "none", val |-> RMul(d_vol, integrand.values[1])]

\* d_vol * jnp.sum(integrand.values): (raised, val)
scaled_sum(d_vol, integrand) ==
    IF integrand.raised # "none" THEN [raised |-> integrand.raised, val |-> NaN]
    ELSE [raised |-> "none", val |-> RMul(d_vol, XSum(integrand))]

\* the sum of e_dotted over the sample points of the discretisation disc
integrate(disc, e_dotted) ==
    IF disc.raised # "none" THEN [raised |-> disc.raised, val |-> NaN]
    ELSE scaled_sum(disc.d_vol, XInterp(XIsel(e_dotted, "f", 0), disc.vol_coords))

\* the contribution to the VJP of one field component: (raised, val)
field_contribution(field, fwd, adj, bounds, wvl) ==
    integrate(get_volume_disc(fwd, bounds, wvl),
              XReal(XMul(fwd.field_components[field], adj.field_components[field])))

\* vjp_permittivty += contribution; acc and contribution are (raised, val)
vjp_accumulate(acc, contribution) ==
    IF acc.raised # "none" THEN acc
    ELSE IF contribution.raised # "none" THEN contribution
    ELSE [raised |-> "none", val |-> RAdd(acc.val, contribution.val)]

\* what a call leaves behind when it raises: no value
None == [type |-> "NoneType"]

\* an update of the attributes of self itself, which is then returned
copy_update_in_place(obj, update) ==
    LET updated == [k \in DOMAIN obj |-> IF k \in DOMAIN update THEN update[k] ELSE obj[k]]
    IN  [self |-> updated, copy |-> updated, fresh |-> FALSE]

\* self.copy(update=...): self is left as it is and a new object, with the
\* updated attributes, is returned
copy_update(obj, update) ==
    [self |-> obj,
     copy |-> [k \in DOMAIN obj |-> IF k \in DOMAIN update THEN update[k] ELSE obj[k]],
     fresh |-> TRUE]

\* the outcome of a method that raised: self as it is, no value
Raised(obj, exception) ==
    [raised |-> exception, self |-> obj, val |-> None, fresh |-> FALSE]

\* the outcome of a method that returned the object of copy_update
Returned(copied) ==
    [raised |-> "none", self |-> copied.self, val |-> copied.copy, fresh |-> copied.fresh]

\* JaxMedium(name=..., permittivity=..., conductivity=...)
JaxMedium(name, permittivity, conductivity) ==
    [type |-> "JaxMedium", name |-> name,
     permittivity |-> permittivity, conductivity |-> conductivity]

\* JaxMedium(permittivity=...): the other attributes take their defaults
JaxMediumOf(permittivity) == JaxMedium("None", permittivity, RZero)

\* return self.copy(update=dict(permittivity=vjp_permittivty))
return_permittivity(obj, vjp_permittivty) ==
    IF vjp_permittivty.raised # "none" THEN Raised(obj, vjp_permittivty.raised)
    ELSE Returned(copy_update(obj, [permittivity |-> vjp_permittivty.val]))

\* a store_vjp that leaves out the contribution of Ez
JaxMedium_store_vjp_no_Ez(obj, fwd, adj, bounds, wvl) ==
    LET v0 == [raised |-> "none", val |-> RZero]
        v1 == vjp_accumulate(v0, field_contribution("Ex", fwd, adj, bounds, wvl))
        v2 == vjp_accumulate(v1, field_contribution("Ey", fwd, adj, bounds, wvl))
    IN  return_permittivity(obj, v2)

\* JaxMedium.store_vjp: the outcome (raised, self, val, fresh), val the medium
\* that holds the gradient
JaxMedium_store_vjp(obj, fwd, adj, bounds, wvl) ==
    LET v0 == [raised |-> "none", val |-> RZero]
        v1 == vjp_accumulate(v0, field_contribution("Ex", fwd, adj, bounds, wvl))
        v2 == vjp_accumulate(v1, field_contribution("Ey", fwd, adj, bounds, wvl))
        v3 == vjp_accumulate(v2, field_contribution("Ez", fwd, adj, bounds, wvl))
    IN  return_permittivity(obj, v3)

-----------------------------------------------------------------------------
(* JaxAnisotropicMedium.store_vjp *)

\* JaxAnisotropicMedium(name=..., xx=..., yy=..., zz=...)
JaxAnisotropicMedium(name, xx, yy, zz) ==
    [type |-> "JaxAnisotropicMedium", name |-> name, xx |-> xx, yy |-> yy, zz |-> zz]

\* vjp_fields[component_name] = JaxMedium(permittivity=vjp_ii); acc is
\* (raised, vjp_fields) and vjp_ii (raised, val)
vjp_fields_put(acc, component_name, vjp_ii) ==
    IF acc.raised # "none" THEN acc
    ELSE IF vjp_ii.raised # "none" THEN [acc EXCEPT !.raised = vjp_ii.raised]
    ELSE [acc EXCEPT !.vjp_fields =
             DictPut(acc.vjp_fields, component_name, JaxMediumOf(vjp_ii.val))]

\* a loop body that gives every sub-medium the sum over all three fields
vjp_component_all_fields(acc, component, fwd, adj, bounds, wvl) ==
    vjp_fields_put(acc, component \o component,
        vjp_accumulate(vjp_accumulate(field_contribution("Ex", fwd, adj, bounds, wvl),
                                      field_contribution("Ey", fwd, adj, bounds, wvl)),
                       field_contribution("Ez", fwd, adj, bounds, wvl)))

\* one pass of the loop over "xyz": the contribution of the field E+component
\* becomes the gradient of the sub-medium component+component
vjp_component(acc, component, fwd, adj, bounds, wvl) ==
    vjp_fields_put(acc, component \o component,
                   field_contribution("E" \o component, fwd, adj, bounds, wvl))

\* return self.copy(update=vjp_fields)
return_fields(obj, acc) ==
    IF acc.raised # "none" THEN Raised(obj, acc.raised)
    ELSE Returned(copy_update(obj, acc.vjp_fields))

\* JaxAnisotropicMedium.store_vjp: the outcome (raised, self, val, fresh)
JaxAnisotropicMedium_store_vjp(obj, fwd, adj, bounds, wvl) ==
    LET f0 == [raised |-> "none", vjp_fields |-> EmptyDict]
        f1 == vjp_component(f0, "x", fwd, adj, bounds, wvl)
        f2 == vjp_component(f1, "y", fwd, adj, bounds, wvl)
        f3 == vjp_component(f2, "z", fwd, adj, bounds, wvl)
    IN  return_fields(obj, f3)

-----------------------------------------------------------------------------
(* JaxCustomMedium.store_vjp *)

\* a numpy array: its shape and its elements in row-major order
NdArray(shape, data) == [shape |-> shape, data |-> data]

\* arr.values of a DataArray
XValues(arr) == NdArray(ShapeOf(arr), arr.values)

\* a reshape that leaves the shape of the array as it is
reshape_skipped(array, shape) == [raised |-> "none", val |-> array]

\* array.reshape(shape): the same elements under another shape; ValueError when
\* the shape holds another number of elements
reshape(array, shape) ==
    IF SizeOf(shape) # Len(array.data)
    THEN [raised |-> "ValueError", val |-> None]
    ELSE [raised |-> "none", val |-> NdArray(shape, array.data)]

\* a dict that keeps the order its keys were inserted in
OrderedDict(keys, vals) == [keys |-> keys, vals |-> vals]

\* JaxDataArray(values=..., coords=...)
JaxDataArray(values, coords) == [values |-> values, coords |-> coords]

\* JaxPermittivityDataset(eps_xx=..., eps_yy=..., eps_zz=...)
JaxPermittivityDataset(field_components) == [field_components |-> field_components]

\* JaxCustomMedium(name=..., eps_dataset=...)
JaxCustomMedium(name, eps_dataset) ==
    [type |-> "JaxCustomMedium", name |-> name, eps_dataset |-> eps_dataset]

\* {dim_pt: coords[dim_pt] for dim_pt in "xyz" if len(coords[dim_pt]) > 1}
interp_coords_of(coords) ==
    [d \in {dim_pt \in {"x", "y", "z"} : Len(coords.vals[dim_pt]) > 1} |-> coords.vals[d]]

\* {dim_pt: 0 for dim_pt in "xyz" if len(coords[dim_pt]) <= 1}
isel_coords_of(coords) ==
    [d \in {dim_pt \in {"x", "y", "z"} : Len(coords.vals[dim_pt]) <= 1} |-> 0]

\* selection along dim when isel_coords names it
XIselDim(arr, isel_coords, dim) ==
    IF dim \in DOMAIN isel_coords THEN XIsel(arr, dim, isel_coords[dim]) ELSE arr

\* a selection of the second frequency instead of the first
XIselAll_second_freq(arr, isel_coords) ==
    XIselDim(XIselDim(XIselDim(XIsel(arr, "f", 1), isel_coords, "x"),
                      isel_coords, "y"), isel_coords, "z")

\* arr.isel(f=0, **isel_coords)
XIselAll(arr, isel_coords) ==
    XIselDim(XIselDim(XIselDim(XIsel(arr, "f", 0), isel_coords, "x"),
                      isel_coords, "y"), isel_coords, "z")

\* tuple(len(coord) for _, coord in coords.items())
vjp_shape_of(coords) == [p \in 1..Len(coords.keys) |-> Len(coords.vals[coords.keys[p]])]

\* d_vol * array, elementwise
NdScale(d_vol, array) ==
    NdArray(array.shape, Buffer([t \in 1..Len(array.data) |-> RMul(d_vol, array.data[t])]))

\* vjp_field_components[eps_field_name] = JaxDataArray(values=vjp_values,
\* coords=coords); acc is (raised, vjp_field_components), vjp_values (raised, val)
vjp_components_put(acc, eps_field_name, vjp_values, coords) ==
    IF vjp_values.raised # "none" THEN [acc EXCEPT !.raised = vjp_values.raised]
    ELSE [acc EXCEPT !.vjp_field_components =
             DictPut(acc.vjp_field_components, eps_field_name,
                     JaxDataArray(vjp_values.val, coords))]

\* (d_vol * e_dotted.real.values).reshape(vjp_shape): (raised, val)
vjp_values_of(d_vol, e_dotted, vjp_shape) ==
    IF e_dotted.raised # "none" THEN [raised |-> e_dotted.raised, val |-> None]
    ELSE reshape(NdScale(d_vol, XValues(XReal(e_dotted))), vjp_shape)

\* the gradient array of the dataset array with the given coords
vjp_data_array(acc, eps_field_name, coords, e_fwd, e_adj) ==
    vjp_components_put(acc, eps_field_name,
        vjp_values_of(ROne,
                      XInterp(XIselAll(XMul(e_fwd, e_adj), isel_coords_of(coords)),
                              interp_coords_of(coords)),
                      vjp_shape_of(coords)),
        coords)

\* one pass of the loop over "xyz" of JaxCustomMedium.store_vjp
vjp_dim(acc, obj, dim, fwd, adj) ==
    IF acc.raised # "none" THEN acc
    ELSE vjp_data_array(acc, "eps_" \o dim \o dim,
                        obj.eps_dataset.field_components["eps_" \o dim \o dim].coords,
                        fwd.field_components["E" \o dim],
                        adj.field_components["E" \o dim])

\* return self.copy(update=dict(eps_dataset=vjp_eps_dataset))
return_dataset(obj, acc) ==
    IF acc.raised # "none" THEN Raised(obj, acc.raised)
    ELSE Returned(copy_update(obj,
            [eps_dataset |-> JaxPermittivityDataset(acc.vjp_field_components)]))

\* JaxCustomMedium.store_vjp: the outcome (raised, self, val, fresh); the
\* simulation bounds and the wavelength are not used
JaxCustomMedium_store_vjp(obj, fwd, adj, bounds, wvl) ==
    LET c0 == [raised |-> "none", vjp_field_components |-> EmptyDict]
        c1 == vjp_dim(c0, obj, "x", fwd, adj)
        c2 == vjp_dim(c1, obj, "y", fwd, adj)
        c3 == vjp_dim(c2, obj, "z", fwd, adj)
    IN  return_dataset(obj, c3)

\* store_vjp of the class of the medium
store_vjp(obj, fwd, adj, bounds, wvl) ==
    CASE obj.type = "JaxMedium" -> JaxMedium_store_vjp(obj, fwd, adj, bounds, wvl)
      [] obj.type = "JaxAnisotropicMedium" ->
             JaxAnisotropicMedium_store_vjp(obj, fwd, adj, bounds, wvl)
      [] obj.type = "JaxCustomMedium" ->
             JaxCustomMedium_store_vjp(obj, fwd, adj, bounds, wvl)

-----------------------------------------------------------------------------
(* Field data recorded by a monitor *)

\* the shapes a field component takes over the data grid
FieldPatterns == {"zero", "one", "imag", "ramp"}

\* sample ix = (i, j, k, l) of a field component of the given pattern
FieldValue(pat, ix) ==
    CASE pat = "zero" -> Cplx(RZero, RZero)
      [] pat = "one"  -> Cplx(ROne, RZero)
      [] pat = "imag" -> Cplx(RZero, ROne)
      [] OTHER        -> Cplx(RInt(ix[1] + 2 * ix[2] + 3 * ix[3] + 5 * (ix[4] - 1)),
                              RInt(ix[1] + ix[4] - 1))

\* the coordinates recorded along an axis the monitor spans from lo to hi: the
\* grid points lo, lo + 1, ..., hi (a single one for a flat monitor)
DataCoords(lo, hi) == Buffer([j \in 1..(hi.n - lo.n + 1) |-> RInt(lo.n + j - 1)])

\* the two frequencies of the recorded data
Freqs == <<RInt(1), RInt(2)>>

\* a ScalarFieldDataArray over the grid of the monitor
FieldArray(bounds, pat) ==
    LET coords == [x |-> DataCoords(bounds.rmin[1], bounds.rmax[1]),
                   y |-> DataCoords(bounds.rmin[2], bounds.rmax[2]),
                   z |-> DataCoords(bounds.rmin[3], bounds.rmax[3]),
                   f |-> Freqs]
        shape == <<Len(coords.x), Len(coords.y), Len(coords.z), Len(coords.f)>>
    IN  [raised |-> "none", dims |-> <<"x", "y", "z", "f">>, coords |-> coords,
         values |-> Buffer([t \in 1..SizeOf(shape) |-> FieldValue(pat, Unravel(t, shape))])]

\* a FieldData: the bounds of its monitor and its Ex, Ey, Ez components
FieldData(bounds, pats) ==
    [bounds |-> bounds,
     field_components |-> [Ex |-> FieldArray(bounds, pats[1]),
                           Ey |-> FieldArray(bounds, pats[2]),
                           Ez |-> FieldArray(bounds, pats[3])]]

-----------------------------------------------------------------------------
(* Inputs of the volume discretisation *)

\* an interval [lo, hi] of integer coordinates, lo <= hi
Intervals == {p \in (0..MaxCoord) \X (0..MaxCoord) : p[1] <= p[2]}

\* a Bound: (rmin, rmax) with rmin <= rmax on every axis
BoundOf(px, py, pz) ==
    [rmin |-> <<RInt(px[1]), RInt(py[1]), RInt(pz[1])>>,
     rmax |-> <<RInt(px[2]), RInt(py[2]), RInt(pz[2])>>]

\* bounds of a monitor geometry: any box, flat or point-like ones included
MonitorBounds == {BoundOf(px, py, pz) : px \in Intervals, py \in Intervals, pz \in Intervals}

\* bounds of a simulation: a cube of positive size
SimBounds == {BoundOf(p, p, p) : p \in {q \in Intervals : q[1] < q[2]}}

\* wavelengths in the material: 1/2, 3, 15 and 40 length units
Wavelengths == {Rat(1, 2), RInt(3), RInt(15), RInt(40)}

\* a FieldData of which only the monitor matters
NoFields == [k \in {} |-> 0]

NoCall == [op |-> "none"]

\* no simulation at hand
NoSim == [type |-> "none"]

\* a JaxMedium with the default attributes
DefaultMedium == JaxMediumOf(ROne)

InitDisc ==
    /\ self = DefaultMedium
    /\ grad_data_fwd \in {[bounds |-> b, field_components |-> NoFields] : b \in MonitorBounds}
    /\ grad_data_adj = grad_data_fwd
    /\ sim_bounds \in SimBounds
    /\ wvl_mat \in Wavelengths
    /\ ret = NoCall
    /\ calls = <<>>
    /\ sim = NoSim
    /\ f_handle = "none"

\* self._get_volume_disc(grad_data=grad_data_fwd, sim_bounds=sim_bounds, wvl_mat=wvl_mat)
CallGetVolumeDisc ==
    /\ ret.op = "none"
    /\ ret' = [op |-> "_get_volume_disc",
               val |-> get_volume_disc(grad_data_fwd, sim_bounds, wvl_mat)]
    /\ UNCHANGED <<self, grad_data_fwd, grad_data_adj, sim_bounds, wvl_mat, calls, sim, f_handle>>

NextDisc == CallGetVolumeDisc

SpecDisc == InitDisc /\ [][NextDisc]_vars

-----------------------------------------------------------------------------
(* Claims about _get_volume_disc *)

\* the call of _get_volume_disc has returned (it did not raise)
DiscReturned == ret.op = "_get_volume_disc" /\ ret.val.raised = "none"

\* extent of the monitor / simulation intersection along axis i
Extent(i) ==
    LET r == bounds_intersection(grad_data_fwd.bounds, sim_bounds)
    IN  RSub(r.rmax[i], r.rmin[i])

\* the cell width of axis i as the returned map shows it: extent / number of samples
CellWidth(i) == RDiv(Extent(i), RInt(Len(ret.val.vol_coords[Axes[i]])))

\* product of the cell widths of the axes present in the returned map
WidthProduct ==
    LET W(i) == IF Axes[i] \in DOMAIN ret.val.vol_coords THEN CellWidth(i) ELSE ROne
    IN  RMul(RMul(W(1), W(2)), W(3))

\* C1: an axis on which the monitor/simulation intersection has zero extent has
\* no key in the returned coordinate map, and d_vol is exactly the product of
\* the cell widths of the axes present in the map (1 when none is present).
C1_DegenerateAxisExcluded ==
    DiscReturned =>
        /\ \A i \in 1..3 : Extent(i) = RZero => Axes[i] \notin DOMAIN ret.val.vol_coords
        /\ ret.val.d_vol = WidthProduct
        /\ (DOMAIN ret.val.vol_coords = {} => ret.val.d_vol = ROne)

\* a returned discretisation with a zero-extent axis beside an axis that is present
C1_Witness ==
    /\ DiscReturned
    /\ \E i \in 1..3 : Extent(i) = RZero
    /\ \E i \in 1..3 : Axes[i] \in DOMAIN ret.val.vol_coords /\ Len(ret.val.vol_coords[Axes[i]]) > 1

\* E * P / W for the extent E of axis i
CellQuotient(i) == RDiv(RMul(Extent(i), RInt(PTS_PER_WVL_INTEGRATION)), wvl_mat)

\* C2: on every axis of positive extent E the number of sample cells is exactly
\* floor(E * 20 / W) + 1, also when E * 20 / W is an integer, and is at least 1.
C2_CellCountFormula ==
    DiscReturned =>
        \A i \in 1..3 :
            RLess(RZero, Extent(i)) =>
                /\ Axes[i] \in DOMAIN ret.val.vol_coords
                /\ Len(ret.val.vol_coords[Axes[i]]) = RFloor(CellQuotient(i)) + 1
                /\ Len(ret.val.vol_coords[Axes[i]]) >= 1

\* a returned discretisation with an axis where E * 20 / W is an integer and an
\* axis where it is not
C2_Witness ==
    /\ DiscReturned
    /\ \E i \in 1..3 : RLess(RZero, Extent(i)) /\ CellQuotient(i).d = 1
    /\ \E i \in 1..3 : RLess(RZero, Extent(i)) /\ CellQuotient(i).d # 1

-----------------------------------------------------------------------------
(* Inputs of store_vjp *)

\* most store_vjp calls made in one behaviour
MaxCalls == 3

\* monitors: a volume, a plane, a line and a point
VjpMonitors ==
    {BoundOf(<<0, 2>>, <<0, 2>>, <<0, 2>>), BoundOf(<<0, 1>>, <<0, 2>>, <<1, 1>>),
     BoundOf(<<1, 2>>, <<0, 0>>, <<2, 2>>), BoundOf(<<1, 1>>, <<1, 1>>, <<1, 1>>)}

\* simulation domains
VjpSimBounds == {BoundOf(<<0, 2>>, <<0, 2>>, <<0, 2>>), BoundOf(<<0, 1>>, <<0, 1>>, <<0, 1>>)}

\* wavelengths that give one to three cells per axis
VjpWavelengths == {RInt(15), RInt(40)}

\* the patterns of (Ex, Ey, Ez)
PatternTriples ==
    {<<"zero", "zero", "zero">>, <<"one", "imag", "ramp">>, <<"ramp", "one", "zero">>}

IsoMediums == {JaxMedium("None", ROne, RZero), JaxMedium("core", RInt(2), ROne)}

AnisoMediums ==
    {JaxAnisotropicMedium("None", JaxMedium("None", ROne, RZero),
                          JaxMedium("core", RInt(2), ROne), JaxMedium("None", ROne, RZero)),
     JaxAnisotropicMedium("clad", JaxMedium("core", RInt(2), ROne),
                          JaxMedium("core", RInt(2), ROne), JaxMedium("None", RInt(3), RZero))}

\* (x, y, z) coordinate vectors of a permittivity dataset: no, one, two and
\* three axes of length 1, and one grid that leaves the range of the field data
DatasetGrids ==
    {<<<<RInt(0), RInt(1)>>, <<Rat(1, 2), RInt(1), RInt(2)>>, <<RInt(0), RInt(2)>>>>,
     <<<<RInt(1)>>, <<RInt(0), RInt(1)>>, <<RInt(0), RInt(1), RInt(2)>>>>,
     <<<<RInt(0), RInt(1)>>, <<RInt(1)>>, <<RInt(1)>>>>,
     <<<<RInt(1)>>, <<RInt(1)>>, <<RInt(1)>>>>,
     <<<<RInt(1), RInt(3)>>, <<RInt(0), RInt(1)>>, <<RInt(1)>>>>}

\* the frequency coordinate of a permittivity dataset: none, one or two frequencies
DatasetFreqs == {<< >>, <<RInt(1)>>, <<RInt(1), RInt(2)>>}

\* the coords of a dataset array: x, y, z and, when given, f
DatasetCoords(grid, freqs) ==
    IF freqs = << >>
    THEN OrderedDict(<<"x", "y", "z">>, [x |-> grid[1], y |-> grid[2], z |-> grid[3]])
    ELSE OrderedDict(<<"x", "y", "z", "f">>,
                     [x |-> grid[1], y |-> grid[2], z |-> grid[3], f |-> freqs])

\* a JaxDataArray of the given coords holding the value eps everywhere
ConstantDataArray(coords, eps) ==
    LET shape == vjp_shape_of(coords)
    IN  JaxDataArray(NdArray(shape, Buffer([t \in 1..SizeOf(shape) |-> eps])), coords)

\* a JaxCustomMedium whose three diagonal components share their coords
CustomMediumOf(grid, freqs) ==
    LET coords == DatasetCoords(grid, freqs)
    IN  JaxCustomMedium("None",
            JaxPermittivityDataset([eps_xx |-> ConstantDataArray(coords, RInt(2)),
                                    eps_yy |-> ConstantDataArray(coords, RInt(3)),
                                    eps_zz |-> ConstantDataArray(coords, RInt(4))]))

CustomMediums == {CustomMediumOf(grid, freqs) : grid \in DatasetGrids, freqs \in DatasetFreqs}

InitVjp ==
    /\ self \in IsoMediums \cup AnisoMediums \cup CustomMediums
    /\ \E b \in VjpMonitors :
          /\ grad_data_fwd \in {FieldData(b, pats) : pats \in PatternTriples}
          /\ grad_data_adj \in {FieldData(b, pats) : pats \in PatternTriples}
    /\ sim_bounds \in VjpSimBounds
    /\ wvl_mat \in VjpWavelengths
    /\ ret = NoCall
    /\ calls = <<>>
    /\ sim = NoSim
    /\ f_handle = "none"

\* a store_vjp call with outcome r: self and the returned value are what the
\* method leaves, and the call is logged with its inputs
FinishStoreVjp(r) ==
    /\ self' = r.self
    /\ ret' = [op |-> "store_vjp", raised |-> r.raised, val |-> r.val, fresh |-> r.fresh]
    /\ calls' = Append(calls, [self |-> self, grad_data_fwd |-> grad_data_fwd,
                               grad_data_adj |-> grad_data_adj, sim_bounds |-> sim_bounds,
                               wvl_mat |-> wvl_mat, ret |-> ret'])
    /\ UNCHANGED <<grad_data_fwd, grad_data_adj, sim_bounds, wvl_mat, sim, f_handle>>

\* JaxMedium.store_vjp(self, grad_data_fwd, grad_data_adj, sim_bounds, wvl_mat)
CallJaxMediumStoreVjp ==
    /\ Len(calls) < MaxCalls
    /\ self.type = "JaxMedium"
    /\ FinishStoreVjp(JaxMedium_store_vjp(self, grad_data_fwd, grad_data_adj,
                                          sim_bounds, wvl_mat))

\* JaxAnisotropicMedium.store_vjp(self, grad_data_fwd, grad_data_adj, sim_bounds, wvl_mat)
CallJaxAnisotropicMediumStoreVjp ==
    /\ Len(calls) < MaxCalls
    /\ self.type = "JaxAnisotropicMedium"
    /\ FinishStoreVjp(JaxAnisotropicMedium_store_vjp(self, grad_data_fwd, grad_data_adj,
                                                     sim_bounds, wvl_mat))

\* JaxCustomMedium.store_vjp(self, grad_data_fwd, grad_data_adj, sim_bounds, wvl_mat)
CallJaxCustomMediumStoreVjp ==
    /\ Len(calls) < MaxCalls
    /\ self.type = "JaxCustomMedium"
    /\ FinishStoreVjp(JaxCustomMedium_store_vjp(self, grad_data_fwd, grad_data_adj,
                                                sim_bounds, wvl_mat))

NextVjp ==
    \/ CallJaxMediumStoreVjp
    \/ CallJaxAnisotropicMediumStoreVjp
    \/ CallJaxCustomMediumStoreVjp

SpecVjp == InitVjp /\ [][NextVjp]_vars

-----------------------------------------------------------------------------
(* Claims about JaxMedium.store_vjp *)

\* the last finished store_vjp call: its inputs and what it returned
LastCall == calls[Len(calls)]

\* the last call was store_vjp of a medium of the given class and it returned
VjpReturned(type) ==
    /\ calls # <<>>
    /\ LastCall.self.type = type
    /\ LastCall.ret.raised = "none"

\* field_contribution of one field for the inputs of the last call
LastContribution(field) ==
    field_contribution(field, LastCall.grad_data_fwd, LastCall.grad_data_adj,
                       LastCall.sim_bounds, LastCall.wvl_mat).val

\* C3: JaxMedium.store_vjp returns a medium whose permittivity is the sum of the
\* field contributions of Ex, Ey and Ez for the same forward data, adjoint
\* data, simulation bounds and wavelength, whose other attributes are those of
\* the input medium, and which is the same for another input permittivity.
C3_IsotropicGradientIsSum ==
    VjpReturned("JaxMedium") =>
        /\ LastCall.ret.val.permittivity =
               RAdd(RAdd(LastContribution("Ex"), LastContribution("Ey")),
                    LastContribution("Ez"))
        /\ DOMAIN LastCall.ret.val = DOMAIN LastCall.self
        /\ \A k \in DOMAIN LastCall.self \ {"permittivity"} :
               LastCall.ret.val[k] = LastCall.self[k]
        /\ \A eps \in {RZero, RInt(7)} :
               JaxMedium_store_vjp([LastCall.self EXCEPT !.permittivity = eps],
                                   LastCall.grad_data_fwd, LastCall.grad_data_adj,
                                   LastCall.sim_bounds, LastCall.wvl_mat).val
                   = LastCall.ret.val

\* a returned gradient to which all three fields contribute, of a medium with
\* a name and a conductivity of its own, and different from its permittivity
C3_Witness ==
    /\ VjpReturned("JaxMedium")
    /\ \A field \in {"Ex", "Ey", "Ez"} : LastContribution(field) # RZero
    /\ LastCall.self.name = "core"
    /\ LastCall.self.conductivity = ROne
    /\ LastCall.ret.val.permittivity # LastCall.self.permittivity

-----------------------------------------------------------------------------
(* Sequences of store_vjp calls, the caller changing the inputs in between *)

\* the mediums the calls are made on: one of each class
PureMediums ==
    {JaxMedium("core", RInt(2), ROne),
     JaxAnisotropicMedium("clad", JaxMedium("core", RInt(2), ROne),
                          JaxMedium("core", RInt(2), ROne), JaxMedium("None", RInt(3), RZero)),
     CustomMediumOf(<<<<RInt(0), RInt(1)>>, <<Rat(1, 2), RInt(1), RInt(2)>>, <<RInt(1)>>>>,
                    <<RInt(1)>>)}

\* the monitor and the simulation domain of these calls
PureBounds == BoundOf(<<0, 2>>, <<0, 2>>, <<0, 2>>)

InitPure ==
    /\ self \in PureMediums
    /\ grad_data_fwd \in {FieldData(PureBounds, pats) : pats \in PatternTriples}
    /\ grad_data_adj = FieldData(PureBounds, <<"one", "imag", "ramp">>)
    /\ sim_bounds = PureBounds
    /\ wvl_mat = RInt(15)
    /\ ret = NoCall
    /\ calls = <<>>
    /\ sim = NoSim
    /\ f_handle = "none"

\* the inputs are still those of the last call
InputsOfLastCall ==
    /\ calls # <<>>
    /\ self = calls[Len(calls)].self
    /\ grad_data_fwd = calls[Len(calls)].grad_data_fwd
    /\ grad_data_adj = calls[Len(calls)].grad_data_adj

\* the caller turns to another medium object for its next call
ChooseMedium ==
    /\ InputsOfLastCall
    /\ Len(calls) < MaxCalls
    /\ \E obj \in PureMediums \ {self} : self' = obj
    /\ UNCHANGED <<grad_data_fwd, grad_data_adj, sim_bounds, wvl_mat, ret, calls, sim, f_handle>>

\* the caller passes forward data with one field component replaced
PerturbField ==
    /\ InputsOfLastCall
    /\ Len(calls) < MaxCalls
    /\ \E field \in {"Ex", "Ey", "Ez"}, pat \in FieldPatterns :
          /\ FieldArray(grad_data_fwd.bounds, pat) # grad_data_fwd.field_components[field]
          /\ grad_data_fwd' = [grad_data_fwd EXCEPT !.field_components[field] =
                                  FieldArray(grad_data_fwd.bounds, pat)]
    /\ UNCHANGED <<self, grad_data_adj, sim_bounds, wvl_mat, ret, calls, sim, f_handle>>

NextPure ==
    \/ CallJaxMediumStoreVjp
    \/ CallJaxAnisotropicMediumStoreVjp
    \/ CallJaxCustomMediumStoreVjp
    \/ ChooseMedium
    \/ PerturbField

SpecPure == InitPure /\ [][NextPure]_vars

-----------------------------------------------------------------------------
(* Claims about JaxAnisotropicMedium.store_vjp *)

\* call number i was store_vjp of a JaxAnisotropicMedium and it returned
AnisoReturned(i) ==
    /\ calls[i].self.type = "JaxAnisotropicMedium"
    /\ calls[i].ret.raised = "none"

\* calls i and j have the same inputs but for the forward and adjoint arrays of
\* the field components outside keep
SameInputsBut(i, j, keep) ==
    /\ calls[i].self = calls[j].self
    /\ calls[i].sim_bounds = calls[j].sim_bounds
    /\ calls[i].wvl_mat = calls[j].wvl_mat
    /\ calls[i].grad_data_fwd.bounds = calls[j].grad_data_fwd.bounds
    /\ calls[i].grad_data_adj.bounds = calls[j].grad_data_adj.bounds
    /\ \A field \in keep :
          /\ calls[i].grad_data_fwd.field_components[field] =
                 calls[j].grad_data_fwd.field_components[field]
          /\ calls[i].grad_data_adj.field_components[field] =
                 calls[j].grad_data_adj.field_components[field]

\* the sub-medium of the returned medium that goes with a field component
SubMediumOf(i, field) ==
    CASE field = "Ex" -> calls[i].ret.val.xx
      [] field = "Ey" -> calls[i].ret.val.yy
      [] field = "Ez" -> calls[i].ret.val.zz

\* C4: for two runs of JaxAnisotropicMedium.store_vjp whose field data differ
\* only in Ez the xx and yy gradients are equal; generally the gradient of the
\* component aa is the contribution of the field E+a alone (stated of the last
\* call of the log, which every call once was), the same whatever the other
\* field components are.
C4_DiagonalIndependence ==
    /\ \A i \in DOMAIN calls : \A j \in DOMAIN calls :
           (AnisoReturned(i) /\ AnisoReturned(j)) =>
               /\ SameInputsBut(i, j, {"Ex", "Ey"}) =>
                      /\ calls[i].ret.val.xx = calls[j].ret.val.xx
                      /\ calls[i].ret.val.yy = calls[j].ret.val.yy
               /\ \A field \in {"Ex", "Ey", "Ez"} :
                      SameInputsBut(i, j, {field}) =>
                          SubMediumOf(i, field) = SubMediumOf(j, field)
    /\ (calls # <<>> /\ AnisoReturned(Len(calls))) =>
           \A field \in {"Ex", "Ey", "Ez"} :
               SubMediumOf(Len(calls), field).permittivity =
                   field_contribution(field, LastCall.grad_data_fwd, LastCall.grad_data_adj,
                                      LastCall.sim_bounds, LastCall.wvl_mat).val

\* two returned runs that differ in Ez only, with different zz gradients and
\* non-zero xx and yy gradients
C4_Witness ==
    \E i \in DOMAIN calls : \E j \in DOMAIN calls :
        /\ AnisoReturned(i) /\ AnisoReturned(j)
        /\ SameInputsBut(i, j, {"Ex", "Ey"})
        /\ calls[i].grad_data_fwd.field_components["Ez"] #
               calls[j].grad_data_fwd.field_components["Ez"]
        /\ calls[i].ret.val.zz # calls[j].ret.val.zz
        /\ calls[i].ret.val.xx.permittivity # RZero
        /\ calls[i].ret.val.yy.permittivity # RZero

-----------------------------------------------------------------------------
(* Claims about JaxCustomMedium.store_vjp *)

EpsNames == {"eps_xx", "eps_yy", "eps_zz"}

\* a diagonal component of the dataset of the medium of the last call
OrigArray(name) == LastCall.self.eps_dataset.field_components[name]

\* the same component of the dataset of the medium the last call returned
GradArray(name) == LastCall.ret.val.eps_dataset.field_components[name]

\* the number of axes among x, y, z on which the array has a single coordinate
DegenerateAxes(array) ==
    Cardinality({d \in {"x", "y", "z"} : Len(array.coords.vals[d]) = 1})

-----------------------------------------------------------------------------
(* JaxMedium.store_vjp on a unit domain: the end-to-end scenario among others *)

\* the 1 x 1 x 1 simulation domain, which the monitor spans too
UnitBounds == BoundOf(<<0, 1>>, <<0, 1>>, <<0, 1>>)

\* forward and adjoint fields of the scenario: Ex constant 1, Ey = Ez = 0
ScenarioFields == FieldData(UnitBounds, <<"one", "zero", "zero">>)

\* the scenario: permittivity 2, wavelength in the material 1/2
InitScenario ==
    /\ self = JaxMedium("None", RInt(2), RZero)
    /\ grad_data_fwd = ScenarioFields
    /\ grad_data_adj = ScenarioFields
    /\ wvl_mat = Rat(1, 2)

\* the same domain at longer wavelengths, with other mediums and fields
InitCoarse ==
    /\ self \in IsoMediums
    /\ grad_data_fwd \in {FieldData(UnitBounds, pats) :
                             pats \in PatternTriples \cup {<<"one", "zero", "zero">>}}
    /\ grad_data_adj \in {FieldData(UnitBounds, pats) :
                             pats \in PatternTriples \cup {<<"one", "zero", "zero">>}}
    /\ wvl_mat \in {RInt(3), RInt(15)}

InitE2E ==
    /\ InitScenario \/ InitCoarse
    /\ sim_bounds = UnitBounds
    /\ ret = NoCall
    /\ calls = <<>>
    /\ sim = NoSim
    /\ f_handle = "none"

\* one call of JaxMedium.store_vjp on the inputs
NextE2E ==
    /\ calls = <<>>
    /\ CallJaxMediumStoreVjp

SpecE2E == InitE2E /\ [][NextE2E]_vars

\* the last call was the scenario and it returned
ScenarioReturned ==
    /\ VjpReturned("JaxMedium")
    /\ LastCall.self.permittivity = RInt(2)
    /\ LastCall.grad_data_fwd = ScenarioFields
    /\ LastCall.grad_data_adj = ScenarioFields
    /\ LastCall.sim_bounds = UnitBounds
    /\ LastCall.wvl_mat = Rat(1, 2)

\* the discretisation store_vjp uses for the inputs of the last call
LastDisc == get_volume_disc(LastCall.grad_data_fwd, LastCall.sim_bounds, LastCall.wvl_mat)

\* 41 cells on every axis, of width 1/41 each, and d_vol = (1/41)^3
ScenarioDisc ==
    /\ \A i \in 1..3 :
          /\ Len(LastDisc.vol_coords[Axes[i]]) = 41
          /\ RSub(LastDisc.vol_coords[Axes[i]][2], LastDisc.vol_coords[Axes[i]][1]) = Rat(1, 41)
          /\ LastDisc.vol_coords[Axes[i]][1] = Rat(1, 82)
    /\ LastDisc.d_vol = Rat(1, 41 * 41 * 41)

\* C6 as stated: in the scenario store_vjp uses 41 cells per axis, d_len = 1/41
\* and d_vol = (1/41)^3, and the gradient it returns is d_vol * 1.0 = (1/41)^3.
C6_GradientIsCellVolume ==
    ScenarioReturned =>
        /\ ScenarioDisc
        /\ LastCall.ret.val.permittivity = RMul(LastDisc.d_vol, ROne)

\* C6 amended: in the scenario store_vjp uses 41 cells per axis, d_len = 1/41
\* and d_vol = (1/41)^3, and the gradient it returns is d_vol times the sum of
\* the 41^3 samples of Ex * Ex = 1, that is (1/41)^3 * 41^3 = 1.
C6_GradientIsVolumeIntegral ==
    ScenarioReturned =>
        /\ ScenarioDisc
        /\ LastCall.ret.val.permittivity =
               RMul(LastDisc.d_vol, RMul(RInt(41 * 41 * 41), ROne))
        /\ LastCall.ret.val.permittivity = ROne

\* the scenario has run and returned a medium
C6_Witness ==
    /\ ScenarioReturned
    /\ LastCall.ret.val.type = "JaxMedium"
    /\ Len(LastDisc.vol_coords["x"]) = 41

-----------------------------------------------------------------------------
(* Claims about store_vjp of all-zero field data *)

\* every value of every component of the field data is zero
AllZero(grad_data) ==
    \A field \in {"Ex", "Ey", "Ez"} :
        \A t \in 1..Len(grad_data.field_components[field].values) :
            grad_data.field_components[field].values[t] = Cplx(RZero, RZero)

\* the last call returned and its forward or its adjoint data were all zero
ZeroFieldsReturned ==
    /\ calls # <<>>
    /\ LastCall.ret.raised = "none"
    /\ AllZero(LastCall.grad_data_fwd) \/ AllZero(LastCall.grad_data_adj)

\* the gradient the last call returned is zero everywhere
ZeroGradient ==
    CASE LastCall.self.type = "JaxMedium" ->
             LastCall.ret.val.permittivity = RZero
      [] LastCall.self.type = "JaxAnisotropicMedium" ->
             /\ LastCall.ret.val.xx.permittivity = RZero
             /\ LastCall.ret.val.yy.permittivity = RZero
             /\ LastCall.ret.val.zz.permittivity = RZero
      [] LastCall.self.type = "JaxCustomMedium" ->
             \A name \in EpsNames :
                 \A t \in 1..Len(GradArray(name).values.data) :
                     GradArray(name).values.data[t] = RZero

\* C7 as stated: when the forward data or the adjoint data are all zero, every
\* field contribution is zero and the gradient store_vjp returns is zero: the
\* permittivity of the isotropic medium, that of the xx, yy, zz sub-mediums of
\* the anisotropic medium, every voxel of every component of the custom medium.
C7_ZeroFieldsZeroGradient ==
    ZeroFieldsReturned =>
        /\ ZeroGradient
        /\ LastCall.self.type # "JaxCustomMedium" =>
               \A field \in {"Ex", "Ey", "Ez"} : LastContribution(field) = RZero

-----------------------------------------------------------------------------
(* Claims about the purity of store_vjp *)

\* a step that is a store_vjp call
StoreVjpStep == calls' # calls

\* calls i and j were made with equal inputs
SameInputs(i, j) ==
    /\ calls[i].self = calls[j].self
    /\ calls[i].grad_data_fwd = calls[j].grad_data_fwd
    /\ calls[i].grad_data_adj = calls[j].grad_data_adj
    /\ calls[i].sim_bounds = calls[j].sim_bounds
    /\ calls[i].wvl_mat = calls[j].wvl_mat

-----------------------------------------------------------------------------
(* Conversion between plain and jax mediums: to_medium and from_tidy3d *)

\* Medium(name=..., permittivity=..., conductivity=...)
Medium(name, permittivity, conductivity) ==
    [type |-> "Medium", name |-> name,
     permittivity |-> permittivity, conductivity |-> conductivity]

\* AnisotropicMedium(name=..., xx=..., yy=..., zz=...)
AnisotropicMedium(name, xx, yy, zz) ==
    [type |-> "AnisotropicMedium", name |-> name, xx |-> xx, yy |-> yy, zz |-> zz]

\* PermittivityDataset(eps_xx=..., eps_yy=..., eps_zz=...)
PermittivityDataset(field_components) == [field_components |-> field_components]

\* CustomMedium(name=..., eps_dataset=...)
CustomMedium(name, eps_dataset) ==
    [type |-> "CustomMedium", name |-> name, eps_dataset |-> eps_dataset]

\* the classes registered with jax
JaxTypes == {"JaxMedium", "JaxAnisotropicMedium", "JaxCustomMedium"}

\* obj.dict(exclude=keys): the attributes of obj but for those excluded
dict_exclude(obj, keys) == [k \in DOMAIN obj \ keys |-> obj[k]]

\* cls.parse_obj(obj_dict): an object of class cls with the attributes of the dict
parse_obj(cls, obj_dict) == DictPut(obj_dict, "type", cls)

\* JaxObject.from_tidy3d, which JaxMedium inherits
JaxObject_from_tidy3d(cls, tidy3d_obj) == parse_obj(cls, dict_exclude(tidy3d_obj, {"type"}))

\* a to_medium that hands the jax medium back as it is
JaxMedium_to_medium_kept(obj) == obj

\* JaxMedium.to_medium
JaxMedium_to_medium(obj) == parse_obj("Medium", dict_exclude(obj, {"type"}))

\* AnisotropicMedium.components: the sub-mediums by name
components(obj) == [xx |-> obj.xx, yy |-> obj.yy, zz |-> obj.zz]

\* JaxAnisotropicMedium.to_medium
JaxAnisotropicMedium_to_medium(obj) ==
    LET d0 == dict_exclude(obj, {"type", "xx", "yy", "zz"})
        d1 == DictPut(d0, "xx", JaxMedium_to_medium(components(obj)["xx"]))
        d2 == DictPut(d1, "yy", JaxMedium_to_medium(components(obj)["yy"]))
        d3 == DictPut(d2, "zz", JaxMedium_to_medium(components(obj)["zz"]))
    IN  parse_obj("AnisotropicMedium", d3)

\* JaxAnisotropicMedium.from_tidy3d
JaxAnisotropicMedium_from_tidy3d(tidy3d_obj) ==
    LET d0 == dict_exclude(tidy3d_obj, {"type", "xx", "yy", "zz"})
        d1 == DictPut(d0, "xx", JaxObject_from_tidy3d("JaxMedium", components(tidy3d_obj)["xx"]))
        d2 == DictPut(d1, "yy", JaxObject_from_tidy3d("JaxMedium", components(tidy3d_obj)["yy"]))
        d3 == DictPut(d2, "zz", JaxObject_from_tidy3d("JaxMedium", components(tidy3d_obj)["zz"]))
    IN  parse_obj("JaxAnisotropicMedium", d3)

\* the nested lists of the elements data of an array of the given shape
RECURSIVE nested(_, _)
nested(shape, data) ==
    IF shape = << >> THEN data[1]
    ELSE LET inner == Len(data) \div shape[1]
         IN  [i \in 1..shape[1] |->
                 nested(Tail(shape), SubSeq(data, (i - 1) * inner + 1, i * inner))]

\* array.tolist()
tolist(array) == nested(array.shape, array.data)

\* the shape of a list nested depth levels deep
RECURSIVE list_shape(_, _)
list_shape(list, depth) ==
    IF depth = 0 THEN << >> ELSE <<Len(list)>> \o list_shape(list[1], depth - 1)

\* the elements of a list nested depth levels deep, in row-major order
RECURSIVE flattened(_, _)
flattened(list, depth) ==
    IF depth = 0 THEN <<list>>
    ELSE IF depth = 1 THEN list
    ELSE LET rows == [i \in 1..Len(list) |-> flattened(list[i], depth - 1)]
             width == Len(rows[1])
         IN  [t \in 1..(Len(list) * width) |->
                 rows[((t - 1) \div width) + 1][((t - 1) % width) + 1]]

\* ScalarFieldDataArray(values, coords=coords): a DataArray of dims x, y, z, f;
\* ValueError when the keys of the coords are not the dims in their order or
\* the lengths of the coords are not the shape of the values
ScalarFieldDataArray(values, coords) ==
    LET dims == <<"x", "y", "z", "f">>
        shape == list_shape(values, Len(dims))
    IN  IF \/ coords.keys # dims
           \/ shape # [p \in 1..Len(dims) |-> Len(coords.vals[dims[p]])]
        THEN [raised |-> "ValueError", dims |-> dims, coords |-> coords.vals, values |-> << >>]
        ELSE [raised |-> "none", dims |-> dims, coords |-> coords.vals,
              values |-> Buffer(flattened(values, Len(dims)))]

\* the JaxDataArray of the values and coords of a DataArray
jax_data_array(data_array) ==
    JaxDataArray(tolist(XValues(data_array)),
                 OrderedDict(data_array.dims,
                             [key \in DOMAIN data_array.coords |-> data_array.coords[key]]))

\* JaxCustomMedium.from_tidy3d
JaxCustomMedium_from_tidy3d(tidy3d_obj) ==
    LET obj_dict == dict_exclude(tidy3d_obj, {"type", "eps_dataset"})
        eps_dataset == tidy3d_obj.eps_dataset
        field_components ==
            [field_name \in {"eps_xx", "eps_yy", "eps_zz"} |->
                jax_data_array(eps_dataset.field_components[field_name])]
    IN  parse_obj("JaxCustomMedium",
                  DictPut(obj_dict, "eps_dataset", JaxPermittivityDataset(field_components)))

\* JaxCustomMedium.to_medium
JaxCustomMedium_to_medium(obj) ==
    LET self_dict == dict_exclude(obj, {"type"})
        eps_field_components ==
            [field_name \in {"eps_xx", "eps_yy", "eps_zz"} |->
                ScalarFieldDataArray(
                    self_dict["eps_dataset"].field_components[field_name].values,
                    self_dict["eps_dataset"].field_components[field_name].coords)]
    IN  parse_obj("CustomMedium",
                  DictPut(self_dict, "eps_dataset", PermittivityDataset(eps_field_components)))

\* JAX_MEDIUM_MAP[type(medium)].from_tidy3d(medium)
from_tidy3d(tidy3d_obj) ==
    CASE tidy3d_obj.type = "Medium" -> JaxObject_from_tidy3d("JaxMedium", tidy3d_obj)
      [] tidy3d_obj.type = "AnisotropicMedium" -> JaxAnisotropicMedium_from_tidy3d(tidy3d_obj)
      [] tidy3d_obj.type = "CustomMedium" -> JaxCustomMedium_from_tidy3d(tidy3d_obj)

-----------------------------------------------------------------------------
(* Plain mediums and their conversion there and back *)

PlainMediums ==
    {Medium(name, RInt(eps), sigma) :
        name \in {"None", "core"}, eps \in 1..3, sigma \in {RZero, Rat(1, 2)}}

PlainAnisotropicMediums ==
    {AnisotropicMedium("None", xx, yy, zz) :
        xx \in {Medium("None", ROne, RZero), Medium("core", RInt(2), Rat(1, 2)),
                Medium("None", RInt(3), RZero)},
        yy \in {Medium("None", ROne, RZero), Medium("core", RInt(2), Rat(1, 2)),
                Medium("None", RInt(3), RZero)},
        zz \in {Medium("None", ROne, RZero), Medium("core", RInt(2), Rat(1, 2)),
                Medium("None", RInt(3), RZero)}}

\* a ScalarFieldDataArray over a dataset grid, its values of the given pattern
PlainDataArray(grid, freqs, pat) ==
    LET coords == [x |-> grid[1], y |-> grid[2], z |-> grid[3], f |-> freqs]
        shape == <<Len(coords.x), Len(coords.y), Len(coords.z), Len(coords.f)>>
    IN  [raised |-> "none", dims |-> <<"x", "y", "z", "f">>, coords |-> coords,
         values |-> Buffer([t \in 1..SizeOf(shape) |-> FieldValue(pat, Unravel(t, shape))])]

PlainCustomMediums ==
    {CustomMedium("None",
         PermittivityDataset([eps_xx |-> PlainDataArray(grid, freqs, pats[1]),
                              eps_yy |-> PlainDataArray(grid, freqs, pats[2]),
                              eps_zz |-> PlainDataArray(grid, freqs, pats[3])])) :
        grid \in DatasetGrids, freqs \in DatasetFreqs \ {<< >>},
        pats \in {<<"ramp", "one", "imag">>, <<"one", "ramp", "ramp">>}}

InitConv ==
    /\ self \in PlainMediums \cup PlainAnisotropicMediums \cup PlainCustomMediums
    /\ grad_data_fwd = [bounds |-> UnitBounds, field_components |-> NoFields]
    /\ grad_data_adj = grad_data_fwd
    /\ sim_bounds = UnitBounds
    /\ wvl_mat = ROne
    /\ ret = NoCall
    /\ calls = <<>>
    /\ sim = NoSim
    /\ f_handle = "none"

\* JaxMedium.from_tidy3d(self) of a plain Medium
CallJaxMediumFromTidy3d ==
    /\ ret.op = "none"
    /\ self.type = "Medium"
    /\ ret' = [op |-> "from_tidy3d", val |-> JaxObject_from_tidy3d("JaxMedium", self)]
    /\ UNCHANGED <<self, grad_data_fwd, grad_data_adj, sim_bounds, wvl_mat, calls, sim, f_handle>>

\* JaxAnisotropicMedium.from_tidy3d(self) of a plain AnisotropicMedium
CallJaxAnisotropicMediumFromTidy3d ==
    /\ ret.op = "none"
    /\ self.type = "AnisotropicMedium"
    /\ ret' = [op |-> "from_tidy3d", val |-> JaxAnisotropicMedium_from_tidy3d(self)]
    /\ UNCHANGED <<self, grad_data_fwd, grad_data_adj, sim_bounds, wvl_mat, calls, sim, f_handle>>

\* JaxCustomMedium.from_tidy3d(self) of a plain CustomMedium
CallJaxCustomMediumFromTidy3d ==
    /\ ret.op = "none"
    /\ self.type = "CustomMedium"
    /\ ret' = [op |-> "from_tidy3d", val |-> JaxCustomMedium_from_tidy3d(self)]
    /\ UNCHANGED <<self, grad_data_fwd, grad_data_adj, sim_bounds, wvl_mat, calls, sim, f_handle>>

\* to_medium() of the JaxMedium that from_tidy3d returned
CallJaxMediumToMedium ==
    /\ ret.op = "from_tidy3d"
    /\ ret.val.type = "JaxMedium"
    /\ ret' = [op |-> "to_medium", val |-> JaxMedium_to_medium(ret.val)]
    /\ UNCHANGED <<self, grad_data_fwd, grad_data_adj, sim_bounds, wvl_mat, calls, sim, f_handle>>

\* to_medium() of the JaxAnisotropicMedium that from_tidy3d returned
CallJaxAnisotropicMediumToMedium ==
    /\ ret.op = "from_tidy3d"
    /\ ret.val.type = "JaxAnisotropicMedium"
    /\ ret' = [op |-> "to_medium", val |-> JaxAnisotropicMedium_to_medium(ret.val)]
    /\ UNCHANGED <<self, grad_data_fwd, grad_data_adj, sim_bounds, wvl_mat, calls, sim, f_handle>>

\* to_medium() of the JaxCustomMedium that from_tidy3d returned
CallJaxCustomMediumToMedium ==
    /\ ret.op = "from_tidy3d"
    /\ ret.val.type = "JaxCustomMedium"
    /\ ret' = [op |-> "to_medium", val |-> JaxCustomMedium_to_medium(ret.val)]
    /\ UNCHANGED <<self, grad_data_fwd, grad_data_adj, sim_bounds, wvl_mat, calls, sim, f_handle>>

NextConv ==
    \/ CallJaxMediumFromTidy3d
    \/ CallJaxAnisotropicMediumFromTidy3d
    \/ CallJaxCustomMediumFromTidy3d
    \/ CallJaxMediumToMedium
    \/ CallJaxAnisotropicMediumToMedium
    \/ CallJaxCustomMediumToMedium

SpecConv == InitConv /\ [][NextConv]_vars

-----------------------------------------------------------------------------
(* Claims about the conversions *)

\* the plain medium self went through from_tidy3d and then to_medium
RoundTripDone == ret.op = "to_medium"

\* the sub-mediums a medium holds
SubMediums(obj) ==
    IF obj.type \in {"AnisotropicMedium", "JaxAnisotropicMedium"}
    THEN {obj.xx, obj.yy, obj.zz} ELSE {}

-----------------------------------------------------------------------------
(* The legacy export of tidy3d_core/convert.py: export_old_json *)

\* a float given in decimal notation, m * 10^e, with m not divisible by 10
\* (frequencies in Hz and times in s are far from 1)
RECURSIVE Float(_, _)
Float(m, e) ==
    IF m = 0 THEN [m |-> 0, e |-> 0]
    ELSE IF m % 10 = 0 THEN Float(m \div 10, e + 1)
    ELSE [m |-> m, e |-> e]

\* x * y of two floats
FMul(x, y) == Float(x.m * y.m, x.e + y.e)

\* the literals 1e12 and 1e-12
E12 == Float(1, 12)
EMinus12 == Float(1, -12)

\* d.update(u) of two dicts
DictUpdate(d, u) == [k \in DOMAIN d \cup DOMAIN u |-> IF k \in DOMAIN u THEN u[k] ELSE d[k]]

\* d.items(): the (key, value) pairs of a dict in its order
items(d) == [i \in 1..Len(d.keys) |-> <<d.keys[i], d.vals[d.keys[i]]>>]

\* f"{prefix}{index}"
fstring(prefix, index) == prefix \o ToString(index)

\* the classes an object of the given type is an instance of: its own and,
\* for the jax mediums, the plain medium they derive from; for the monitors,
\* what they record (scalar fields, flux) and over what (frequencies, times)
bases(type) ==
    CASE type = "JaxMedium" -> {"JaxMedium", "Medium"}
      [] type = "JaxAnisotropicMedium" -> {"JaxAnisotropicMedium", "AnisotropicMedium"}
      [] type = "JaxCustomMedium" -> {"JaxCustomMedium", "CustomMedium"}
      [] type = "FieldMonitor" -> {"FieldMonitor", "ScalarFieldMonitor", "FreqMonitor"}
      [] type = "FieldTimeMonitor" -> {"FieldTimeMonitor", "ScalarFieldMonitor", "TimeMonitor"}
      [] type = "FluxMonitor" -> {"FluxMonitor", "AbstractFluxMonitor", "FreqMonitor"}
      [] type = "FluxTimeMonitor" -> {"FluxTimeMonitor", "AbstractFluxMonitor", "TimeMonitor"}
      [] type = "ModeMonitor" -> {"ModeMonitor", "FreqMonitor"}
      [] OTHER -> {type}

\* isinstance(obj, cls)
isinstance(obj, cls) == cls \in bases(obj.type)

\* a local variable that nothing was assigned to yet
Unbound == [unbound |-> TRUE]

\* PoleResidue(name=..., eps_inf=..., poles=...): a dispersive medium
PoleResidue(name, eps_inf, poles) ==
    [type |-> "PoleResidue", name |-> name, eps_inf |-> eps_inf, poles |-> poles]

\* the geometries of structures
Box(center, size) == [type |-> "Box", center |-> center, size |-> size]
Sphere(center, radius) == [type |-> "Sphere", center |-> center, radius |-> radius]
Cylinder(center, axis, radius, length) ==
    [type |-> "Cylinder", center |-> center, axis |-> axis, radius |-> radius,
     length |-> length]
PolySlab(vertices, slab_bounds) ==
    [type |-> "PolySlab", vertices |-> vertices, slab_bounds |-> slab_bounds]
GeometryGroup(geometries) == [type |-> "GeometryGroup", geometries |-> geometries]

\* Structure(geometry=..., medium=...)
Structure(geometry, medium) == [geometry |-> geometry, medium |-> medium]

\* the distinct elements of a sequence in the order of their first appearance
RECURSIVE distinct(_)
distinct(seq) ==
    IF seq = << >> THEN << >>
    ELSE LET front == distinct(SubSeq(seq, 1, Len(seq) - 1))
             last == seq[Len(seq)]
         IN  IF \E i \in 1..Len(front) : front[i] = last THEN front ELSE Append(front, last)

\* Simulation.mediums: the background medium and the mediums of the structures,
\* each once
mediums(s) == distinct(<<s.medium>> \o [i \in 1..Len(s.structures) |-> s.structures[i].medium])

\* Simulation.medium_map: {medium: index for index, medium in enumerate(mediums)}
medium_map_of(s) ==
    LET keys == mediums(s)
    IN  OrderedDict(keys, [medium \in {keys[i] : i \in 1..Len(keys)} |->
                               (CHOOSE i \in 1..Len(keys) : keys[i] = medium) - 1])

\* old_json_parameters(sim)
old_json_parameters(s) ==
    [unit_length |-> "um",
     unit_frequency |-> "THz",
     unit_time |-> "ps",
     x_cent |-> s.center[1],
     y_cent |-> s.center[2],
     z_cent |-> s.center[3],
     x_span |-> s.size[1],
     y_span |-> s.size[2],
     z_span |-> s.size[3],
     mesh_step |-> s.grid_size,
     symmetries |-> s.symmetry,
     pml_layers |-> [i \in 1..Len(s.pml_layers) |->
                        [profile |-> s.pml_layers[i].profile,
                         Nlayers |-> s.pml_layers[i].num_layers]],
     run_time |-> FMul(s.run_time, E12),
     courant |-> s.courant,
     shutoff |-> s.shutoff,
     subpixel |-> s.subpixel]

\* the record of a medium of index imed: the body of the loop over
\* medium_map.items()
med_of(medium, imed) ==
    LET med == [name |-> fstring("mat_", imed)]
    IN  IF isinstance(medium, "Medium")
        THEN DictUpdate(med, [type |-> "Medium",
                              permittivity |-> <<medium.permittivity, medium.permittivity,
                                                 medium.permittivity>>,
                              conductivity |-> <<medium.conductivity, medium.conductivity,
                                                 medium.conductivity>>,
                              poles |-> << >>])
        ELSE med

\* medium_list after the loop over medium_map.items()
medium_list_of(medium_map) ==
    [i \in 1..Len(items(medium_map)) |-> med_of(items(medium_map)[i][1], items(medium_map)[i][2])]

\* the records the loop over sim.structures appends for the structure at
\* position istruct: one for a Box, Sphere, Cylinder or PolySlab, else none
struct_of(medium_map, istruct, structure) ==
    LET struct == [name |-> fstring("struct_", istruct),
                   mat_index |-> medium_map.vals[structure.medium]]
        geom == structure.geometry
    IN  IF isinstance(geom, "Box")
        THEN <<DictUpdate(struct, [type |-> "Box",
                                   x_cent |-> geom.center[1],
                                   y_cent |-> geom.center[2],
                                   z_cent |-> geom.center[3],
                                   x_span |-> geom.size[1],
                                   y_span |-> geom.size[2],
                                   z_span |-> geom.size[3]])>>
        ELSE IF isinstance(geom, "Sphere")
        THEN <<DictUpdate(struct, [type |-> "Sphere",
                                   x_cent |-> geom.center[1],
                                   y_cent |-> geom.center[2],
                                   z_cent |-> geom.center[3],
                                   radius |-> geom.radius])>>
        ELSE IF isinstance(geom, "Cylinder")
        THEN <<DictUpdate(struct, [type |-> "Cylinder",
                                   x_cent |-> geom.center[1],
                                   y_cent |-> geom.center[2],
                                   z_cent |-> geom.center[3],
                                   axis |-> <<"x", "y", "z">>[geom.axis + 1],
                                   radius |-> geom.radius,
                                   height |-> geom.length])>>
        ELSE IF isinstance(geom, "PolySlab")
        THEN <<DictUpdate(struct, [type |-> "PolySlab",
                                   vertices |-> geom.vertices,
                                   z_cent |-> RDiv(RAdd(geom.slab_bounds[1],
                                                        geom.slab_bounds[2]), RInt(2)),
                                   z_size |-> RSub(geom.slab_bounds[2],
                                                   geom.slab_bounds[1])])>>
        ELSE << >>

\* struct_list after the loop over enumerate(sim.structures), from position
\* istruct on
RECURSIVE struct_list_from(_, _, _)
struct_list_from(structures, medium_map, istruct) ==
    IF istruct >= Len(structures) THEN << >>
    ELSE struct_of(medium_map, istruct, structures[istruct + 1])
             \o struct_list_from(structures, medium_map, istruct + 1)

\* old_json_structures(sim): (medium_list, struct_list)
old_json_structures(s) ==
    <<medium_list_of(medium_map_of(s)), struct_list_from(s.structures, medium_map_of(s), 0)>>

\* the source_time record of a GaussianPulse
src_time_of(source_time) ==
    [type |-> "GaussianPulse",
     frequency |-> FMul(source_time.freq0, EMinus12),
     fwidth |-> FMul(source_time.fwidth, EMinus12),
     offset |-> source_time.offset,
     phase |-> source_time.phase]

\* "E" if source.polarization[0] == "J" else "H", followed by source.polarization[1]
component_of(polarization) ==
    (IF polarization[1] = "J" THEN "E" ELSE "H") \o polarization[2]

\* the record of a VolumeSource
src_of(name, source, src_time) ==
    [name |-> name,
     type |-> "VolumeSource",
     source_time |-> src_time,
     center |-> source.center,
     size |-> source.size,
     component |-> component_of(source.polarization),
     amplitude |-> source.source_time.amplitude]

\* the local variables of old_json_sources before its loop
sources_locals == [src_time |-> Unbound, src |-> Unbound, src_list |-> << >>, raised |-> "none"]

\* reading a local variable raises UnboundLocalError when nothing was assigned to it
is_unbound(local) == "unbound" \in DOMAIN local

\* the body of the loop over sim.sources.items(): src_time is assigned for a
\* GaussianPulse only and src for a VolumeSource only, and src is appended in
\* every iteration
sources_step(locals, name, source) ==
    LET src_time == IF isinstance(source.source_time, "GaussianPulse")
                    THEN src_time_of(source.source_time)
                    ELSE locals.src_time
    IN  IF isinstance(source, "VolumeSource")
        THEN IF is_unbound(src_time)
             THEN [locals EXCEPT !.raised = "UnboundLocalError"]
             ELSE [src_time |-> src_time,
                   src |-> src_of(name, source, src_time),
                   src_list |-> Append(locals.src_list, src_of(name, source, src_time)),
                   raised |-> "none"]
        ELSE IF is_unbound(locals.src)
             THEN [locals EXCEPT !.src_time = src_time, !.raised = "UnboundLocalError"]
             ELSE [locals EXCEPT !.src_time = src_time,
                                 !.src_list = Append(locals.src_list, locals.src)]

\* the local variables after the first n iterations of the loop
RECURSIVE sources_loop(_, _)
sources_loop(sources, n) ==
    IF n = 0 THEN sources_locals
    ELSE LET locals == sources_loop(sources, n - 1)
         IN  IF locals.raised # "none" THEN locals
             ELSE sources_step(locals, items(sources)[n][1], items(sources)[n][2])

\* old_json_sources(sim): src_list, or the exception raised
old_json_sources(s) ==
    LET locals == sources_loop(s.sources, Len(s.sources.keys))
    IN  [raised |-> locals.raised, val |-> locals.src_list]

\* np.any([field[0] == letter for field in fields])
any_field(fields, letter) == \E i \in 1..Len(fields) : fields[i][1] = letter

\* store: "E" and "H" as far as a field of theirs is asked for
store_of(fields) ==
    (IF any_field(fields, "E") THEN <<"E">> ELSE << >>)
        \o (IF any_field(fields, "H") THEN <<"H">> ELSE << >>)

\* [f * 1e-12 for f in monitor.freqs]
frequency_of(freqs) == [i \in 1..Len(freqs) |-> FMul(freqs[i], EMinus12)]

\* the record of a monitor: the body of the loop over sim.monitors.items()
mnt_of(s, name, monitor) ==
    LET mnt == [name |-> name,
                x_cent |-> monitor.center[1],
                y_cent |-> monitor.center[2],
                z_cent |-> monitor.center[3],
                x_span |-> monitor.size[1],
                y_span |-> monitor.size[2],
                z_span |-> monitor.size[3]]
    IN  IF isinstance(monitor, "FieldTimeMonitor")
        THEN DictUpdate(mnt, [type |-> "TimeMonitor", t_start |-> 0, t_stop |-> s.run_time,
                              t_step |-> None, store |-> store_of(monitor.fields)])
        ELSE IF isinstance(monitor, "FluxTimeMonitor")
        THEN DictUpdate(mnt, [type |-> "TimeMonitor", t_start |-> 0, t_stop |-> s.run_time,
                              t_step |-> None, store |-> <<"flux">>])
        ELSE IF isinstance(monitor, "FieldMonitor")
        THEN DictUpdate(mnt, [type |-> "FrequencyMonitor",
                              frequency |-> frequency_of(monitor.freqs),
                              store |-> store_of(monitor.fields), interpolate |-> TRUE])
        ELSE IF isinstance(monitor, "FluxMonitor")
        THEN DictUpdate(mnt, [type |-> "FrequencyMonitor",
                              frequency |-> frequency_of(monitor.freqs),
                              store |-> <<"flux">>, interpolate |-> TRUE])
        ELSE mnt

\* old_json_monitors(sim)
old_json_monitors(s) ==
    [i \in 1..Len(items(s.monitors)) |->
        mnt_of(s, items(s.monitors)[i][1], items(s.monitors)[i][2])]

\* the document of export_old_json, given what old_json_structures and
\* old_json_sources returned
sim_dict_of(s, lists, src_list) ==
    [parameters |-> old_json_parameters(s),
     materials |-> lists[1],
     structures |-> lists[2],
     sources |-> src_list,
     monitors |-> old_json_monitors(s)]

\* export_old_json(sim): the document, or the exception old_json_sources raised
export_old_json(s) ==
    IF old_json_sources(s).raised # "none"
    THEN [raised |-> old_json_sources(s).raised, val |-> None]
    ELSE [raised |-> "none",
          val |-> sim_dict_of(s, old_json_structures(s), old_json_sources(s).val)]

-----------------------------------------------------------------------------
(* Simulations and their export *)

\* the most structures, sources and monitors of a simulation
MaxStructures == 2
MaxSources == 2
MaxMonitors == 1

\* the sequences of at most n elements of a set
SeqUpTo(set, n) == UNION {[1..k -> set] : k \in 0..n}

\* a dict of the values under the keys name_0, name_1, ... in this order
NamedDict(prefix, values) ==
    LET keys == [i \in 1..Len(values) |-> fstring(prefix, i - 1)]
    IN  OrderedDict(keys, [key \in {keys[i] : i \in 1..Len(keys)} |->
                              values[CHOOSE i \in 1..Len(keys) : keys[i] = key]])

Origin == <<RZero, RZero, RZero>>
UnitSize == <<ROne, ROne, ROne>>

\* the medium of the background and the mediums of structures: the background
\* medium again, another Medium, a JaxMedium and a dispersive medium
BackgroundMedium == Medium("None", ROne, RZero)
StructureMediums ==
    {BackgroundMedium,
     Medium("core", RInt(2), Rat(1, 2)),
     JaxMedium("None", RInt(3), RZero),
     PoleResidue("None", ROne, << >>)}

\* the geometries of structures: the four kinds the export knows and another one
Geometries ==
    {Box(Origin, UnitSize),
     Sphere(Origin, ROne),
     Cylinder(Origin, 2, ROne, RInt(2)),
     PolySlab(<<<<RZero, RZero>>, <<ROne, RZero>>, <<ROne, ROne>>>>, <<RZero, RInt(2)>>),
     GeometryGroup(<<Box(Origin, UnitSize)>>)}

Structures == {Structure(geometry, medium) : geometry \in Geometries, medium \in StructureMediums}

\* source time dependences: a GaussianPulse of 200 THz and a ContinuousWave
GaussianPulse(freq0, fwidth) ==
    [type |-> "GaussianPulse", amplitude |-> ROne, phase |-> RZero, freq0 |-> freq0,
     fwidth |-> fwidth, offset |-> RInt(5)]
ContinuousWave(freq0, fwidth) ==
    [type |-> "ContinuousWave", amplitude |-> ROne, phase |-> RZero, freq0 |-> freq0,
     fwidth |-> fwidth]
SourceTimes == {GaussianPulse(Float(2, 14), Float(3, 13)), ContinuousWave(Float(2, 14), Float(3, 13))}

\* sources: the kind the export knows and another one
VolumeSource(source_time, polarization) ==
    [type |-> "VolumeSource", center |-> Origin, size |-> UnitSize,
     source_time |-> source_time, polarization |-> polarization]
PlaneWave(source_time, polarization) ==
    [type |-> "PlaneWave", center |-> Origin, size |-> UnitSize,
     source_time |-> source_time, polarization |-> polarization]
Sources ==
    {VolumeSource(source_time, <<"J", "x">>) : source_time \in SourceTimes}
        \cup {PlaneWave(source_time, <<"M", "y">>) : source_time \in SourceTimes}

\* monitors: the four kinds the export knows and another one
Monitor(type) ==
    [type |-> type, center |-> Origin, size |-> UnitSize,
     fields |-> <<<<"E", "x">>, <<"H", "y">>>>,
     freqs |-> <<Float(2, 14), Float(25, 13)>>]
Monitors ==
    {Monitor(type) : type \in {"FieldTimeMonitor", "FluxTimeMonitor", "FieldMonitor",
                               "FluxMonitor", "ModeMonitor"}}

\* Simulation(structures=..., sources=..., monitors=...), the other attributes
\* fixed: a run time of 2 ps
Simulation(structures, sources, monitors) ==
    [type |-> "Simulation",
     center |-> Origin,
     size |-> <<RInt(4), RInt(4), RInt(4)>>,
     grid_size |-> <<Rat(1, 20), Rat(1, 20), Rat(1, 20)>>,
     symmetry |-> <<0, 0, 0>>,
     pml_layers |-> <<[profile |-> "standard", num_layers |-> 12],
                      [profile |-> "standard", num_layers |-> 12],
                      [profile |-> "standard", num_layers |-> 0]>>,
     run_time |-> Float(2, -12),
     courant |-> Rat(9, 10),
     shutoff |-> Rat(1, 100000),
     subpixel |-> TRUE,
     medium |-> BackgroundMedium,
     structures |-> structures,
     sources |-> NamedDict("source_", sources),
     monitors |-> NamedDict("monitor_", monitors)]

\* the simulations of at most so many structures, sources and monitors
Simulations(structures, sources, monitors) ==
    {Simulation(structure_seq, source_seq, monitor_seq) :
        structure_seq \in SeqUpTo(Structures, structures),
        source_seq \in SeqUpTo(Sources, sources),
        monitor_seq \in SeqUpTo(Monitors, monitors)}

InitExport ==
    /\ sim \in Simulations(MaxStructures, MaxSources, MaxMonitors)
    /\ f_handle = "none"
    /\ self = DefaultMedium
    /\ grad_data_fwd = [bounds |-> UnitBounds, field_components |-> NoFields]
    /\ grad_data_adj = grad_data_fwd
    /\ sim_bounds = UnitBounds
    /\ wvl_mat = ROne
    /\ ret = NoCall
    /\ calls = <<>>

\* export_old_json(sim)
CallExportOldJson ==
    /\ ret.op = "none"
    /\ sim.type = "Simulation"
    /\ ret' = [op |-> "export_old_json", raised |-> export_old_json(sim).raised,
               val |-> export_old_json(sim).val]
    /\ UNCHANGED <<self, grad_data_fwd, grad_data_adj, sim_bounds, wvl_mat, calls, sim, f_handle>>

NextExport == CallExportOldJson

SpecExport == InitExport /\ [][NextExport]_vars

-----------------------------------------------------------------------------
(* Claims about the export *)

\* export_old_json returned a document
Exported == ret.op = "export_old_json" /\ ret.raised = "none"

\* the distinct mediums of the simulation: that of the background and those of
\* its structures
MediumsOf(s) == {s.medium} \cup {s.structures[i].medium : i \in 1..Len(s.structures)}

\* the index of a medium in the medium map of the simulation
IndexOf(s, medium) == medium_map_of(s).vals[medium]

\* the materials list holds one record per distinct medium
OneRecordPerMedium ==
    /\ Len(ret.val.materials) = Cardinality(MediumsOf(sim))
    /\ \A medium \in MediumsOf(sim) : IndexOf(sim, medium) + 1 \in 1..Len(ret.val.materials)
    /\ \A medium, other \in MediumsOf(sim) :
           IndexOf(sim, medium) = IndexOf(sim, other) => medium = other

\* the record for index i is named mat_<i>
MaterialsNamed ==
    \A medium \in MediumsOf(sim) :
        ret.val.materials[IndexOf(sim, medium) + 1].name = fstring("mat_", IndexOf(sim, medium))

\* a material record carries the type, permittivity and conductivity of the medium
Carries(med, medium) ==
    /\ {"type", "permittivity", "conductivity"} \subseteq DOMAIN med
    /\ "permittivity" \in DOMAIN medium =>
           med.permittivity = <<medium.permittivity, medium.permittivity, medium.permittivity>>
    /\ "conductivity" \in DOMAIN medium =>
           med.conductivity = <<medium.conductivity, medium.conductivity, medium.conductivity>>

\* the record of every medium carries its type, permittivity and conductivity
MaterialsCarry ==
    \A medium \in MediumsOf(sim) :
        Carries(ret.val.materials[IndexOf(sim, medium) + 1], medium)

\* the geometries the export emits a structure for
SupportedGeometries == {"Box", "Sphere", "Cylinder", "PolySlab"}

\* the emitted structure struct is that of position istruct of sim.structures
EmittedFor(struct, istruct) ==
    /\ struct.name = fstring("struct_", istruct)
    /\ sim.structures[istruct + 1].geometry.type \in SupportedGeometries
    /\ struct.type = sim.structures[istruct + 1].geometry.type

\* every emitted structure is named struct_<its position in sim.structures>
StructuresNamed ==
    \A i \in 1..Len(ret.val.structures) :
        \E istruct \in 0..(Len(sim.structures) - 1) : EmittedFor(ret.val.structures[i], istruct)

\* the mat_index i of every emitted structure refers to the record named
\* mat_<i>, which is that of the medium of the structure
MatIndexRefers ==
    \A i \in 1..Len(ret.val.structures) :
        \A istruct \in 0..(Len(sim.structures) - 1) :
            EmittedFor(ret.val.structures[i], istruct) =>
                /\ ret.val.structures[i].mat_index + 1 \in 1..Len(ret.val.materials)
                /\ ret.val.materials[ret.val.structures[i].mat_index + 1].name =
                       fstring("mat_", ret.val.structures[i].mat_index)
                /\ ret.val.structures[i].mat_index =
                       IndexOf(sim, sim.structures[istruct + 1].medium)

\* C10: in the document export_old_json returns, the materials list holds
\* exactly one record per distinct medium of the medium map, the record for
\* index i is named mat_<i> and carries the type, permittivity and conductivity
\* of that medium, every emitted structure is named struct_<its position in
\* sim.structures>, and its mat_index i refers to the record named mat_<i>
\* that describes the medium of the structure.
C10_MaterialsAndStructures ==
    Exported =>
        /\ OneRecordPerMedium
        /\ MaterialsNamed
        /\ MaterialsCarry
        /\ StructuresNamed
        /\ MatIndexRefers

\* the parts of C10 but for what the material records carry
C10_NamesAndIndices ==
    Exported =>
        /\ OneRecordPerMedium
        /\ MaterialsNamed
        /\ StructuresNamed
        /\ MatIndexRefers

\* the material records of the mediums that are instances of Medium carry
\* their type, permittivity and conductivity
C10_MediumRecordsCarry ==
    Exported =>
        \A medium \in MediumsOf(sim) :
            isinstance(medium, "Medium") =>
                Carries(ret.val.materials[IndexOf(sim, medium) + 1], medium)

\* a document was returned for a simulation with a structure of a dispersive
\* medium
C10_DispersiveExported ==
    /\ Exported
    /\ \E i \in 1..Len(sim.structures) : sim.structures[i].medium.type = "PoleResidue"
    /\ Len(ret.val.structures) = 2

\* the source of the simulation an emitted source record is named after
SourceNamed(name) == sim.sources.vals[name]

\* the monitor of the simulation an emitted monitor record is named after
MonitorNamed(name) == sim.monitors.vals[name]

\* the frequencies of the emitted sources are those of the simulation in THz
SourceFrequenciesInTHz ==
    \A i \in 1..Len(ret.val.sources) :
        /\ ret.val.sources[i].source_time.frequency =
               FMul(SourceNamed(ret.val.sources[i].name).source_time.freq0, EMinus12)
        /\ ret.val.sources[i].source_time.fwidth =
               FMul(SourceNamed(ret.val.sources[i].name).source_time.fwidth, EMinus12)

\* the frequency lists of the emitted frequency monitors are those of the
\* simulation in THz
MonitorFrequenciesInTHz ==
    \A i \in 1..Len(ret.val.monitors) :
        "frequency" \in DOMAIN ret.val.monitors[i] =>
            ret.val.monitors[i].frequency =
                [k \in 1..Len(MonitorNamed(ret.val.monitors[i].name).freqs) |->
                    FMul(MonitorNamed(ret.val.monitors[i].name).freqs[k], EMinus12)]

\* the run time of the parameters is that of the simulation in ps
RunTimeInPs == ret.val.parameters.run_time = FMul(sim.run_time, E12)

\* the t_stop of the emitted time monitors is the run time of the simulation in ps
StopTimesInPs ==
    \A i \in 1..Len(ret.val.monitors) :
        "t_stop" \in DOMAIN ret.val.monitors[i] =>
            ret.val.monitors[i].t_stop = FMul(sim.run_time, E12)

\* C11: every frequency export_old_json writes (freq0 and fwidth of the
\* sources, the frequency lists of the frequency monitors) is the value of the
\* simulation times 1e-12, and every time it writes (run_time of the
\* parameters, t_stop of every time monitor) is the value of the simulation
\* times 1e12, as the units THz and ps it declares ask for.
C11_UnitConversions ==
    Exported =>
        /\ ret.val.parameters.unit_frequency = "THz"
        /\ ret.val.parameters.unit_time = "ps"
        /\ SourceFrequenciesInTHz
        /\ MonitorFrequenciesInTHz
        /\ RunTimeInPs
        /\ StopTimesInPs

\* the parts of C11 but for the t_stop of the time monitors
C11_FrequenciesAndRunTime ==
    Exported =>
        /\ SourceFrequenciesInTHz
        /\ MonitorFrequenciesInTHz
        /\ RunTimeInPs

\* a document was returned with a time monitor and a source in it
C11_TimeMonitorExported ==
    /\ Exported
    /\ Len(ret.val.sources) > 0
    /\ \E i \in 1..Len(ret.val.monitors) : ret.val.monitors[i].type = "TimeMonitor"

-----------------------------------------------------------------------------
(* Loading the monitor data of a legacy data file: load_old_monitor_data *)

\* np.array(list): an array of one axis
np_array(list) == NdArray(<<Len(list)>>, Buffer(list))

\* array.ravel(): the elements under a single axis
ravel(array) == NdArray(<<Len(array.data)>>, array.data)

\* array[comp, :, :, :, :]: the part of the array at index comp of its first axis
take_first(array, comp) ==
    LET inner == SizeOf(Tail(array.shape))
    IN  NdArray(Tail(array.shape), Buffer(SubSeq(array.data, comp * inner + 1, (comp + 1) * inner)))

\* list.index(value)
index_of(list, value) == (CHOOSE i \in 1..Len(list) : list[i] = value) - 1

\* the coordinates along one axis of a monitor of the given center and size
discretize_axis(center, size) ==
    IF size = RZero THEN <<center>>
    ELSE <<RSub(center, RDiv(size, RInt(2))), RAdd(center, RDiv(size, RInt(2)))>>

\* discretize_monitor(simulation, monitor): the x, y and z coordinates of the
\* points at which the fields of the monitor are recorded
discretize_monitor(s, monitor) ==
    [d \in 1..3 |-> discretize_axis(monitor.center[d], monitor.size[d])]

\* the local variables of load_old_monitor_data before its loop
load_locals ==
    [sampler_values |-> Unbound, sampler_label |-> Unbound, data_dict |-> EmptyDict,
     raised |-> "none"]

\* the sampler locals after the first if of the loop body: those of a
\* FreqMonitor or TimeMonitor, else the ones left from before
sampler_of(locals, monitor) ==
    IF isinstance(monitor, "FreqMonitor")
    THEN [sampler_values |-> np_array(monitor.freqs), sampler_label |-> "f"]
    ELSE IF isinstance(monitor, "TimeMonitor")
    THEN [sampler_values |-> np_array(monitor.times), sampler_label |-> "t"]
    ELSE [sampler_values |-> locals.sampler_values, sampler_label |-> locals.sampler_label]

\* values: for every field of monitor.fields the array read from the file
field_values(group, fields) ==
    [k \in 1..Len(fields) |->
        take_first(group[fields[k][1]], index_of(<<"x", "y", "z">>, fields[k][2]))]

\* num_fields * [coords]
expanded(num_fields, coords) == [k \in 1..num_fields |-> coords]

\* the record of a ScalarFieldMonitor
scalar_field_record(s, group, monitor, sampler) ==
    DictPut([fields |-> monitor.fields,
             x |-> expanded(Len(monitor.fields), discretize_monitor(s, monitor)[1]),
             y |-> expanded(Len(monitor.fields), discretize_monitor(s, monitor)[2]),
             z |-> expanded(Len(monitor.fields), discretize_monitor(s, monitor)[3]),
             values |-> field_values(group, monitor.fields)],
            sampler.sampler_label, sampler.sampler_values)

\* the record of an AbstractFluxMonitor
flux_record(group, sampler) ==
    DictPut([values |-> ravel(group["flux"])], sampler.sampler_label, sampler.sampler_values)

\* data_dict[name]["monitor_name"] = name; KeyError when the dict has no
\* record under the name
put_monitor_name(locals, name) ==
    IF name \notin DOMAIN locals.data_dict
    THEN [locals EXCEPT !.raised = "KeyError"]
    ELSE [locals EXCEPT !.data_dict =
              DictPut(locals.data_dict, name,
                      DictPut(locals.data_dict[name], "monitor_name", name))]

\* the sampler locals taken over into the locals
with_sampler(locals, sampler) ==
    [locals EXCEPT !.sampler_values = sampler.sampler_values,
                   !.sampler_label = sampler.sampler_label]

\* the loop body after the sampler is set: the record of a ScalarFieldMonitor
\* or an AbstractFluxMonitor is put into data_dict (UnboundLocalError when no
\* sampler was ever set: sampler_values and sampler_label are assigned
\* together), and the record under the name is given its monitor_name
record_step(s, file, locals, name, monitor, sampler) ==
    IF isinstance(monitor, "ScalarFieldMonitor")
    THEN IF is_unbound(sampler.sampler_values)
         THEN [locals EXCEPT !.raised = "UnboundLocalError"]
         ELSE put_monitor_name(
                  [with_sampler(locals, sampler) EXCEPT !.data_dict =
                      DictPut(locals.data_dict, name,
                              scalar_field_record(s, file[name], monitor, sampler))], name)
    ELSE IF isinstance(monitor, "AbstractFluxMonitor")
    THEN IF is_unbound(sampler.sampler_values)
         THEN [locals EXCEPT !.raised = "UnboundLocalError"]
         ELSE put_monitor_name(
                  [with_sampler(locals, sampler) EXCEPT !.data_dict =
                      DictPut(locals.data_dict, name, flux_record(file[name], sampler))], name)
    ELSE put_monitor_name(with_sampler(locals, sampler), name)

\* the body of the loop over simulation.monitors.items()
load_step(s, file, locals, name, monitor) ==
    record_step(s, file, locals, name, monitor, sampler_of(locals, monitor))

\* the local variables after the first n iterations of the loop
RECURSIVE load_loop(_, _, _)
load_loop(s, file, n) ==
    IF n = 0 THEN load_locals
    ELSE LET locals == load_loop(s, file, n - 1)
         IN  IF locals.raised # "none" THEN locals
             ELSE load_step(s, file, locals, items(s.monitors)[n][1], items(s.monitors)[n][2])

\* what load_old_monitor_data leaves behind given the locals after the loop:
\* the file is closed and data_dict returned, or an exception has left the
\* function before f_handle.close()
load_result(locals) ==
    IF locals.raised # "none"
    THEN [raised |-> locals.raised, val |-> None, f_handle |-> "open"]
    ELSE [raised |-> "none", val |-> locals.data_dict, f_handle |-> "closed"]

\* load_old_monitor_data(simulation, data_file), file being what the data file holds
load_old_monitor_data(s, file) == load_result(load_loop(s, file, Len(s.monitors.keys)))

-----------------------------------------------------------------------------
(* Simulations with monitors, their data files and the loading of these *)

\* the most monitors of a simulation whose data are loaded
MaxLoadMonitors == 2

\* a monitor of the given class and fields, flat along z, with two
\* frequencies and three times
MonitorOf(type, fields) ==
    [type |-> type, center |-> Origin, size |-> <<ROne, ROne, RZero>>, fields |-> fields,
     freqs |-> <<Float(2, 14), Float(25, 13)>>, times |-> <<0, 1, 2>>]

\* the fields asked of a scalar field monitor
FieldLists ==
    {<<<<"E", "x">>, <<"H", "y">>>>, <<<<"H", "z">>, <<"E", "x">>>>, <<<<"E", "y">>>>}

LoadMonitors ==
    {MonitorOf(type, fields) : type \in {"FieldMonitor", "FieldTimeMonitor"},
                               fields \in FieldLists}
        \cup {MonitorOf(type, << >>) : type \in {"FluxMonitor", "FluxTimeMonitor", "ModeMonitor"}}

\* the number of sampler values a monitor records
num_samples(monitor) ==
    IF isinstance(monitor, "TimeMonitor") THEN Len(monitor.times) ELSE Len(monitor.freqs)

\* a dataset of the file: an array of the shape whose elements tell the
\* monitor, the dataset and the position in it
Dataset(shape, tag) == NdArray(shape, Buffer([t \in 1..SizeOf(shape) |-> tag + t]))

\* the group of the data file of the monitor at position imon: E and H of
\* shape (3, nx, ny, nz, ns) for a scalar field monitor, flux of shape
\* (ns, 1) for a flux monitor
GroupOf(s, imon, monitor) ==
    LET xyz == discretize_monitor(s, monitor)
        shape == <<3, Len(xyz[1]), Len(xyz[2]), Len(xyz[3]), num_samples(monitor)>>
    IN  IF isinstance(monitor, "ScalarFieldMonitor")
        THEN [E |-> Dataset(shape, 1000 * imon), H |-> Dataset(shape, 1000 * imon + 500)]
        ELSE IF isinstance(monitor, "AbstractFluxMonitor")
        THEN [flux |-> Dataset(<<num_samples(monitor), 1>>, 1000 * imon)]
        ELSE [modes |-> Dataset(<<num_samples(monitor)>>, 1000 * imon)]

\* the data file the solver wrote for the simulation: a group for every monitor
DataFile(s) ==
    [name \in {s.monitors.keys[i] : i \in 1..Len(s.monitors.keys)} |->
        GroupOf(s, index_of(s.monitors.keys, name), s.monitors.vals[name])]

InitLoad ==
    /\ \E monitor_seq \in SeqUpTo(LoadMonitors, MaxLoadMonitors) :
           sim = Simulation(<< >>, << >>, monitor_seq)
    /\ f_handle = "none"
    /\ self = DefaultMedium
    /\ grad_data_fwd = [bounds |-> UnitBounds, field_components |-> NoFields]
    /\ grad_data_adj = grad_data_fwd
    /\ sim_bounds = UnitBounds
    /\ wvl_mat = ROne
    /\ ret = NoCall
    /\ calls = <<>>

\* load_old_monitor_data(sim, data_file)
CallLoadOldMonitorData ==
    /\ ret.op = "none"
    /\ sim.type = "Simulation"
    /\ ret' = [op |-> "load_old_monitor_data",
               raised |-> load_old_monitor_data(sim, DataFile(sim)).raised,
               val |-> load_old_monitor_data(sim, DataFile(sim)).val]
    /\ f_handle' = load_old_monitor_data(sim, DataFile(sim)).f_handle
    /\ UNCHANGED <<self, grad_data_fwd, grad_data_adj, sim_bounds, wvl_mat, calls, sim>>

NextLoad == CallLoadOldMonitorData

SpecLoad == InitLoad /\ [][NextLoad]_vars

-----------------------------------------------------------------------------
(* Claims about load_old_monitor_data *)

\* load_old_monitor_data was called and is over
LoadOver == ret.op = "load_old_monitor_data"

\* the names of the monitors of the simulation
MonitorNames == {sim.monitors.keys[i] : i \in 1..Len(sim.monitors.keys)}

\* the record has the sampler axis of the monitor: f with its freqs for a
\* frequency monitor, t with its times for a time monitor, and not the other
SamplerOf(record, monitor) ==
    IF isinstance(monitor, "FreqMonitor")
    THEN /\ "f" \in DOMAIN record
         /\ "t" \notin DOMAIN record
         /\ record.f.data = monitor.freqs
    ELSE /\ "t" \in DOMAIN record
         /\ "f" \notin DOMAIN record
         /\ record.t.data = monitor.times

\* the element of the file that goes with element t of the array of a field
FileElement(name, field, t) ==
    DataFile(sim)[name][field[1]].data[
        index_of(<<"x", "y", "z">>, field[2])
            * (Len(DataFile(sim)[name][field[1]].data) \div 3) + t]

\* the record of a scalar field monitor holds, for every field asked for and
\* in their order, the array of the field and the coordinates of the monitor
ScalarFieldsOf(record, name, monitor) ==
    /\ record.fields = monitor.fields
    /\ Len(record.values) = Len(monitor.fields)
    /\ Len(record.x) = Len(monitor.fields)
    /\ Len(record.y) = Len(monitor.fields)
    /\ Len(record.z) = Len(monitor.fields)
    /\ \A k \in 1..Len(monitor.fields) :
           /\ record.x[k] = discretize_monitor(sim, monitor)[1]
           /\ record.y[k] = discretize_monitor(sim, monitor)[2]
           /\ record.z[k] = discretize_monitor(sim, monitor)[3]
           /\ record.values[k].shape =
                  <<Len(record.x[k]), Len(record.y[k]), Len(record.z[k]), num_samples(monitor)>>
           /\ \A t \in 1..Len(record.values[k].data) :
                  record.values[k].data[t] = FileElement(name, monitor.fields[k], t)

\* the record of a flux monitor holds a single raveled array
FluxOf(record, name) ==
    /\ Len(record.values.shape) = 1
    /\ record.values.data = DataFile(sim)[name]["flux"].data

\* the returned dict is as C12 says
RecordsAsStated ==
    /\ DOMAIN ret.val = MonitorNames
    /\ \A name \in MonitorNames :
           /\ ret.val[name].monitor_name = name
           /\ SamplerOf(ret.val[name], sim.monitors.vals[name])
           /\ isinstance(sim.monitors.vals[name], "ScalarFieldMonitor") =>
                  ScalarFieldsOf(ret.val[name], name, sim.monitors.vals[name])
           /\ isinstance(sim.monitors.vals[name], "AbstractFluxMonitor") =>
                  FluxOf(ret.val[name], name)

\* C12: load_old_monitor_data returns a dict with exactly one record per
\* monitor of the simulation under the name of the monitor, every record's
\* monitor_name is its key, the sampler axis is f with the freqs of a
\* frequency monitor and t with the times of a time monitor (never those of a
\* monitor processed before), scalar field records hold one array and one
\* x, y, z triple per field in the order of monitor.fields, flux records a
\* single raveled array, and the data file is closed when the function is over.
C12_OneRecordPerMonitor ==
    LoadOver =>
        /\ ret.raised = "none"
        /\ RecordsAsStated
        /\ f_handle = "closed"

\* whenever load_old_monitor_data returns, the dict is as C12 says and the
\* file is closed
C12_ReturnedRecords ==
    (LoadOver /\ ret.raised = "none") => (RecordsAsStated /\ f_handle = "closed")

\* the call was on a simulation with a ModeMonitor after a FieldMonitor and
\* ended in a KeyError with the file open
C12_ModeMonitorLoaded ==
    /\ LoadOver
    /\ Len(sim.monitors.keys) = 2
    /\ sim.monitors.vals["monitor_0"].type = "FieldMonitor"
    /\ sim.monitors.vals["monitor_1"].type = "ModeMonitor"
    /\ ret.raised = "KeyError"
    /\ f_handle = "open"

\* the call returned the records of a time monitor after a frequency monitor
C12_TwoMonitorsLoaded ==
    /\ LoadOver
    /\ ret.raised = "none"
    /\ Len(sim.monitors.keys) = 2
    /\ sim.monitors.vals["monitor_0"].type = "FieldMonitor"
    /\ sim.monitors.vals["monitor_1"].type = "FluxTimeMonitor"

-----------------------------------------------------------------------------
(* Claims about _get_volume_disc: bounds that do not overlap, sample points *)

\* the call of _get_volume_disc is over, returned or raised
DiscOver == ret.op = "_get_volume_disc"

\* the monitor and the simulation do not overlap along axis i: the maximum of
\* their lower edges lies above the minimum of their upper edges
NoOverlap(i) == RLess(Extent(i), RZero)

\* product of the cell widths of the axes of positive extent
PositiveWidthProduct ==
    LET W(i) == IF RLess(RZero, Extent(i)) THEN CellWidth(i) ELSE ROne
    IN  RMul(RMul(W(1), W(2)), W(3))

\* the sample coordinates of axis i lie within the intersection and its cells
\* are of positive width
SamplesWithin(i) ==
    /\ Len(ret.val.vol_coords[Axes[i]]) > 0
    /\ RLess(RZero, CellWidth(i))
    /\ \A k \in 1..Len(ret.val.vol_coords[Axes[i]]) :
           /\ RLeq(bounds_intersection(grad_data_fwd.bounds, sim_bounds).rmin[i],
                   ret.val.vol_coords[Axes[i]][k])
           /\ RLeq(ret.val.vol_coords[Axes[i]][k],
                   bounds_intersection(grad_data_fwd.bounds, sim_bounds).rmax[i])

\* C13: when the monitor bounds and the simulation bounds do not overlap on
\* some axis, _get_volume_disc treats the axis as one of zero thickness: it
\* raises no error, the axis is neither in the coordinate map nor in d_vol, and
\* no sample coordinate outside the intersection, no cell width <= 0 and no
\* cell count <= 0 is produced.
C13_NoOverlapIsZeroThickness ==
    (DiscOver /\ \E i \in 1..3 : NoOverlap(i)) =>
        /\ ret.val.raised = "none"
        /\ \A i \in 1..3 : NoOverlap(i) => Axes[i] \notin DOMAIN ret.val.vol_coords
        /\ ret.val.d_vol = PositiveWidthProduct
        /\ \A i \in 1..3 : Axes[i] \in DOMAIN ret.val.vol_coords => SamplesWithin(i)

\* a call with bounds that do not overlap along x has returned a cell of
\* negative width on it
C13_NegativeCellReturned ==
    /\ DiscOver
    /\ NoOverlap(1)
    /\ ret.val.raised = "none"
    /\ "x" \in DOMAIN ret.val.vol_coords
    /\ RLess(CellWidth(1), RZero)

\* a call with bounds that do not overlap has raised ZeroDivisionError
C13_DivisionByZeroRaised ==
    /\ DiscOver
    /\ \E i \in 1..3 : NoOverlap(i)
    /\ ret.val.raised = "ZeroDivisionError"

\* a call with bounds that do not overlap has raised the ValueError of linspace
C13_LinspaceRaised ==
    /\ DiscOver
    /\ \E i \in 1..3 : NoOverlap(i)
    /\ ret.val.raised = "ValueError"

\* with bounds that overlap or touch on every axis the call returns, and the
\* samples of every axis in the map lie within the intersection
C13_OverlapReturns ==
    (DiscOver /\ \A i \in 1..3 : ~ NoOverlap(i)) =>
        /\ ret.val.raised = "none"
        /\ \A i \in 1..3 : Axes[i] \in DOMAIN ret.val.vol_coords => SamplesWithin(i)

\* the lower and the upper edge of the intersection along axis i
MinEdge(i) == bounds_intersection(grad_data_fwd.bounds, sim_bounds).rmin[i]
MaxEdge(i) == bounds_intersection(grad_data_fwd.bounds, sim_bounds).rmax[i]

\* the cell count of axis i
CellCount(i) == num_cells_dim_of(Extent(i), wvl_mat)

\* the cells of axis i: the extent divided by the cell count
CellOf(i) == RDiv(Extent(i), RInt(CellCount(i)))

\* the samples of axis i are the centres of CellCount(i) cells of equal width
\* that tile the intersection
CellCentres(i, coords) ==
    /\ Len(coords) = CellCount(i)
    /\ coords[1] = RAdd(MinEdge(i), RDiv(CellOf(i), RInt(2)))
    /\ coords[Len(coords)] = RSub(MaxEdge(i), RDiv(CellOf(i), RInt(2)))
    /\ \A k \in 1..(Len(coords) - 1) : RSub(coords[k + 1], coords[k]) = CellOf(i)
    /\ \A k \in 1..Len(coords) : RLess(MinEdge(i), coords[k]) /\ RLess(coords[k], MaxEdge(i))
    /\ RMul(RInt(CellCount(i)), CellOf(i)) = Extent(i)

\* C14: for every axis of positive extent [min, max] and cell count n,
\* _get_volume_disc returns exactly n sample coordinates, evenly spaced by
\* width = (max - min) / n, the first min + width / 2 and the last
\* max - width / 2; so every sample lies strictly inside [min, max] and
\* n * width is the extent.
C14_SamplesAreCellCentres ==
    DiscReturned =>
        \A i \in 1..3 :
            RLess(RZero, Extent(i)) =>
                /\ Axes[i] \in DOMAIN ret.val.vol_coords
                /\ CellCentres(i, ret.val.vol_coords[Axes[i]])

\* a returned discretisation with an axis of three cells and an axis of two
C14_Witness ==
    /\ DiscReturned
    /\ \A i \in 1..3 : RLess(RZero, Extent(i))
    /\ \E i \in 1..3 : Len(ret.val.vol_coords[Axes[i]]) = 3
    /\ \E i \in 1..3 : Len(ret.val.vol_coords[Axes[i]]) = 2

\* a returned discretisation with an axis of a single cell
C14_SingleCell ==
    /\ DiscReturned
    /\ \E i \in 1..3 : RLess(RZero, Extent(i)) /\ Len(ret.val.vol_coords[Axes[i]]) = 1
-----------------------------------------------------------------------------
(* Claims about the voxel values of JaxCustomMedium.store_vjp *)

\* the real part of fwd * adj at sample (ix, iy, iz) of the first frequency
RealProductAt(e_fwd, e_adj, ix, iy, iz) ==
    LET shape == ShapeOf(e_fwd)
        t == (ix - 1) * StrideOf(shape, 1) + (iy - 1) * StrideOf(shape, 2)
             + (iz - 1) * StrideOf(shape, 3) + 1
    IN  RSub(RMul(e_fwd.values[t].re, e_adj.values[t].re),
             RMul(e_fwd.values[t].im, e_adj.values[t].im))

\* the field samples a voxel draws on along one axis, each with its weight:
\* sample 0 alone where the dataset holds at most one coordinate, else the two
\* neighbours of the dataset coordinate; none where the coordinate lies outside
\* the field data
AxisSamples(field_coords, dataset_coords, idx) ==
    IF Len(dataset_coords) <= 1 THEN <<[index |-> 1, weight |-> ROne]>>
    ELSE IF Len(field_coords) < 2 THEN << >>
    ELSE LET l == Locate(field_coords, dataset_coords[idx])
         IN  IF l.k = 0 THEN << >>
             ELSE <<[index |-> l.k, weight |-> RSub(ROne, l.w)],
                    [index |-> l.k + 1, weight |-> l.w]>>

\* the real part of fwd * adj at the first frequency, evaluated for voxel
\* (i, j, k) of a dataset array with the given coords: the weighted sum over the
\* neighbouring samples (multilinear in the axes with more than one
\* coordinate), NaN where a coordinate lies outside the field data
VoxelValue(e_fwd, e_adj, coords, i, j, k) ==
    LET sx == AxisSamples(e_fwd.coords["x"], coords.vals["x"], i)
        sy == AxisSamples(e_fwd.coords["y"], coords.vals["y"], j)
        sz == AxisSamples(e_fwd.coords["z"], coords.vals["z"], k)
        shape == <<Len(sx), Len(sy), Len(sz)>>
        terms == Buffer([t \in 1..SizeOf(shape) |->
                    LET a == sx[IndexAt(t, shape, 1)]
                        b == sy[IndexAt(t, shape, 2)]
                        c == sz[IndexAt(t, shape, 3)]
                    IN  RMul(RMul(RMul(a.weight, b.weight), c.weight),
                             RealProductAt(e_fwd, e_adj, a.index, b.index, c.index))])
    IN  IF SizeOf(shape) = 0 THEN NaN ELSE SumFrom(terms, 1, Len(terms))

\* the field component that the diagonal component of the dataset draws on
FieldOf(name) ==
    CASE name = "eps_xx" -> "Ex" [] name = "eps_yy" -> "Ey" [] name = "eps_zz" -> "Ez"

\* every voxel of the returned component is VoxelValue of its indices
VoxelsEvaluated(name) ==
    LET e_fwd == LastCall.grad_data_fwd.field_components[FieldOf(name)]
        e_adj == LastCall.grad_data_adj.field_components[FieldOf(name)]
        coords == OrigArray(name).coords
        grad == GradArray(name).values
    IN  \A t \in 1..Len(grad.data) :
            grad.data[t] = RMul(ROne, VoxelValue(e_fwd, e_adj, coords,
                                                 IndexAt(t, grad.shape, 1),
                                                 IndexAt(t, grad.shape, 2),
                                                 IndexAt(t, grad.shape, 3)))

\* C15: whenever JaxCustomMedium.store_vjp returns, the value at voxel (i, j, k)
\* of every returned eps_aa is 1.0 times the real part of forward Ea * adjoint
\* Ea at frequency index 0, evaluated (linearly between the field samples) at
\* the dataset's coordinates on the axes with more than one coordinate and at
\* sample index 0 of the field data on the axes with at most one; the returned
\* arrays keep the coords of the original, and other sim_bounds and wvl_mat
\* give the same result.
C15_VoxelIsRealProduct ==
    VjpReturned("JaxCustomMedium") =>
        /\ \A name \in EpsNames :
               /\ VoxelsEvaluated(name)
               /\ GradArray(name).coords = OrigArray(name).coords
        /\ \A bounds \in VjpSimBounds, wvl \in VjpWavelengths :
               JaxCustomMedium_store_vjp(LastCall.self, LastCall.grad_data_fwd,
                                         LastCall.grad_data_adj, bounds, wvl).val
                   = LastCall.ret.val

\* a returned gradient with a voxel between the field samples along y (y = 1/2)
\* whose value is a number other than zero and differs from that of the voxel
\* at the next y
C15_Witness ==
    /\ VjpReturned("JaxCustomMedium")
    /\ OrigArray("eps_xx").coords.vals["y"] = <<Rat(1, 2), RInt(1), RInt(2)>>
    /\ LET grad == GradArray("eps_xx").values
       IN  /\ grad.shape[1] = 2 /\ grad.shape[2] = 3 /\ grad.shape[3] = 2
           /\ grad.data[1] # NaN
           /\ grad.data[1] # RZero
           /\ grad.data[1] # grad.data[1 + StrideOf(grad.shape, 2)]

\* a returned gradient of a dataset with a single x coordinate, x = 1, whose
\* voxels hold the field product at the first x sample of the field data, x = 0
C15_DegenerateAxisSelected ==
    /\ VjpReturned("JaxCustomMedium")
    /\ OrigArray("eps_zz").coords.vals["x"] = <<RInt(1)>>
    /\ Len(OrigArray("eps_zz").coords.vals["y"]) = 2
    /\ LastCall.grad_data_fwd.field_components["Ez"].coords["x"][1] = RInt(0)
    /\ GradArray("eps_zz").values.data[1] =
           RealProductAt(LastCall.grad_data_fwd.field_components["Ez"],
                         LastCall.grad_data_adj.field_components["Ez"], 1, 1, 1)
    /\ GradArray("eps_zz").values.data[1] # RZero
-----------------------------------------------------------------------------
(* Claims about the items export_old_json has no record for *)

\* export_old_json was called and is over, whether it returned or raised
ExportOver == ret.op = "export_old_json"

\* the positions of the structures, sources and monitors of a supported kind
SupportedStructures ==
    {i \in 1..Len(sim.structures) : sim.structures[i].geometry.type \in SupportedGeometries}

SupportedSources ==
    {i \in 1..Len(sim.sources.keys) : items(sim.sources)[i][2].type = "VolumeSource"}

SupportedMonitorKinds == {"FieldTimeMonitor", "FluxTimeMonitor", "FieldMonitor", "FluxMonitor"}

SupportedMonitors ==
    {i \in 1..Len(sim.monitors.keys) : items(sim.monitors)[i][2].type \in SupportedMonitorKinds}

\* the positions in an emitted list of the records of the given name
RecordsNamed(list, name) == {k \in 1..Len(list) : list[k].name = name}

\* the keys of the record of a source, and those every monitor record has
SourceKeys == {"name", "type", "source_time", "center", "size", "component", "amplitude"}

MonitorKeys ==
    {"name", "type", "store", "x_cent", "y_cent", "z_cent", "x_span", "y_span", "z_span"}

\* the structures list holds exactly one record for each structure of a
\* supported geometry and nothing else
StructuresOmitted ==
    /\ Len(ret.val.structures) = Cardinality(SupportedStructures)
    /\ \A i \in SupportedStructures :
           /\ Cardinality(RecordsNamed(ret.val.structures, fstring("struct_", i - 1))) = 1
           /\ \A k \in RecordsNamed(ret.val.structures, fstring("struct_", i - 1)) :
                  ret.val.structures[k].type = sim.structures[i].geometry.type

\* the sources list holds exactly one record, with all its keys, for each
\* VolumeSource and nothing else
SourcesOmitted ==
    /\ Len(ret.val.sources) = Cardinality(SupportedSources)
    /\ \A i \in SupportedSources :
           Cardinality(RecordsNamed(ret.val.sources, sim.sources.keys[i])) = 1
    /\ \A k \in 1..Len(ret.val.sources) : DOMAIN ret.val.sources[k] = SourceKeys

\* the monitors list holds exactly one record, with its type and what it
\* stores, for each monitor of a supported kind and nothing else
MonitorsOmitted ==
    /\ Len(ret.val.monitors) = Cardinality(SupportedMonitors)
    /\ \A i \in SupportedMonitors :
           Cardinality(RecordsNamed(ret.val.monitors, sim.monitors.keys[i])) = 1
    /\ \A k \in 1..Len(ret.val.monitors) : MonitorKeys \subseteq DOMAIN ret.val.monitors[k]

\* C16 as stated: export_old_json raises no error, and for any ordering of
\* supported and unsupported items each emitted list holds exactly one record
\* for each supported structure, source and monitor, no record for an
\* unsupported one and no duplicated or incomplete record.
C16_UnsupportedOmitted ==
    ExportOver =>
        /\ ret.raised = "none"
        /\ StructuresOmitted
        /\ SourcesOmitted
        /\ MonitorsOmitted

\* the structures part of C16: in every returned document the structures of
\* an unsupported geometry are left out and the others have one record each
C16_StructuresOmitted == Exported => StructuresOmitted

\* C16 for simulations whose sources are all VolumeSources with a
\* GaussianPulse and whose monitors are all of a supported kind: no error is
\* raised and every list is as stated
C16_SupportedItemsExported ==
    (/\ ExportOver
     /\ SupportedSources = 1..Len(sim.sources.keys)
     /\ \A i \in 1..Len(sim.sources.keys) :
            items(sim.sources)[i][2].source_time.type = "GaussianPulse"
     /\ SupportedMonitors = 1..Len(sim.monitors.keys))
        => /\ ret.raised = "none"
           /\ StructuresOmitted
           /\ SourcesOmitted
           /\ MonitorsOmitted

\* a returned document for a VolumeSource followed by a source of another
\* kind: the record of the VolumeSource is emitted twice
C16_DuplicatedSource ==
    /\ Exported
    /\ Len(sim.sources.keys) = 2
    /\ SupportedSources = {1}
    /\ Len(ret.val.sources) = 2
    /\ ret.val.sources[1] = ret.val.sources[2]
    /\ ret.val.sources[2].name = "source_0"

\* a source of another kind comes first: UnboundLocalError
C16_UnsupportedSourceRaised ==
    /\ ExportOver
    /\ Len(sim.sources.keys) = 2
    /\ SupportedSources = {2}
    /\ items(sim.sources)[2][2].source_time.type = "GaussianPulse"
    /\ ret.raised = "UnboundLocalError"

\* a returned document for a monitor of another kind: a record of it is
\* emitted, without type and store
C16_IncompleteMonitor ==
    /\ Exported
    /\ Len(sim.monitors.keys) = 1
    /\ SupportedMonitors = {}
    /\ Len(ret.val.monitors) = 1
    /\ ret.val.monitors[1].name = "monitor_0"
    /\ "type" \notin DOMAIN ret.val.monitors[1]

\* a returned document that leaves out a structure of another geometry
\* between two supported ones
C16_StructureLeftOut ==
    /\ Exported
    /\ Len(sim.structures) = 2
    /\ SupportedStructures = {2}
    /\ Len(ret.val.structures) = 1
    /\ ret.val.structures[1].name = "struct_1"

=============================================================================
